---- MODULE Spec2Model ----
(***************************************************************************)
(* Indicator core of TuaThanTsinn_dashboard: the ratchet ATR trailing      *)
(* stop, the CIS + 2560 signal engine, the RSMACD oscillator and the       *)
(* signal de-duplication walk.                                             *)
(*                                                                         *)
(* A pandas Series is a sequence (iloc 0 is position 1).  A float cell is  *)
(* an option value: NaN is the empty set, a defined cell is {v}.  Prices   *)
(* are integers (exact in float64), ratios are exact fractions <<n, d>>    *)
(* with d > 0 that are only ever compared by cross-multiplication.         *)
(***************************************************************************)
EXTENDS Integers, Sequences, FiniteSets, TLC

VARIABLES
    phase,          \* which call of the pipeline has returned
    ts_close,       \* atr_trailing_stop: argument close (the anchor series)
    ts_atr,         \* atr_trailing_stop: argument atr
    ts_multiplier,  \* atr_trailing_stop: argument multiplier
    trailing_stop,  \* atr_trailing_stop: returned Series
    dd_strategy,    \* deduplicate_signals: "CIS" or "RSMACD" (which class)
    dd_frame,       \* deduplicate_signals: argument df, rows [idx, flags]
    dd_signal_df,   \* deduplicate_signals: its local signal_df, the labelled
                    \* rows before the run walk
    dd_events,      \* deduplicate_signals(df)
    dd_events2,     \* deduplicate_signals(deduplicate_signals(df))
    cis_bars,       \* Strategy A: the price frame (columns close, open, vol)
    cis_enable,     \* Strategy A: enable_volume_confirmation of the call
    cis_frame,      \* CIS2560Indicators.compute_indicators(cis_bars)
    cis_signals,    \* generate_signals(cis_frame, cis_enable): the frame
                    \* with the flag columns
    cis_other,      \* the flag columns under not cis_enable
    cis_swapped,    \* the flag columns under cis_enable with the two
                    \* volume averages exchanged
    cis_events,     \* CIS2560Indicators.deduplicate_signals(the signal frame)
    rs_macd_line,   \* Strategy B: result['macd_line'] (line 67)
    rs_period,      \* Strategy B: argument rsi_period
    rs_frame,       \* Strategy B: the columns lines 74-92 compute
    rs_signals,     \* RSMACDIndicators.generate_signals(rs_frame): the
                    \* frame with the six flag columns
    rs_events,      \* RSMACDIndicators.deduplicate_signals(the signal frame)
    tech_fn,        \* TechnicalIndicators / StatisticalIndicators: the
                    \* static method called
    tech_args,      \* its arguments
    tech_out        \* how the call ended

stopVars == <<ts_close, ts_atr, ts_multiplier, trailing_stop>>

dedupVars == <<dd_strategy, dd_frame, dd_signal_df, dd_events, dd_events2>>

cisVars ==
    <<cis_bars, cis_enable, cis_frame, cis_signals, cis_other, cis_swapped,
      cis_events>>

rsVars == <<rs_macd_line, rs_period, rs_frame, rs_signals, rs_events>>

techVars == <<tech_fn, tech_args, tech_out>>

vars == <<phase, stopVars, dedupVars, cisVars, rsVars, techVars>>

\* the variables of the calls a specification does not make
IdleStop ==
    /\ ts_close = <<>> /\ ts_atr = <<>> /\ ts_multiplier = 0
    /\ trailing_stop = <<>>

IdleDedup ==
    /\ dd_strategy = "" /\ dd_frame = <<>> /\ dd_signal_df = <<>>
    /\ dd_events = <<>> /\ dd_events2 = <<>>

IdleCis ==
    /\ cis_bars = <<>> /\ cis_enable = FALSE /\ cis_frame = <<>>
    /\ cis_signals = <<>> /\ cis_other = <<>> /\ cis_swapped = <<>>
    /\ cis_events = <<>>

IdleRs ==
    /\ rs_macd_line = <<>> /\ rs_period = 0
    /\ rs_frame = <<>> /\ rs_signals = <<>> /\ rs_events = <<>>

IdleTech == tech_fn = "" /\ tech_args = <<>> /\ tech_out = <<>>

\* ---------------------------------------------------------------- cells
NaN == {}

Num(x) == {x}

IsNa(c) == c = {}

Val(c) == CHOOSE x \in c : TRUE

Max2(a, b) == IF a >= b THEN a ELSE b

\* All sequences over S of length 0..n
SeqsUpTo(S, n) == UNION {[1..k -> S] : k \in 0..n}

\* ------------------------------------------------ frames as objects
\* A call works with two names: df, the caller's frame, and result (or
\* df_work), the frame it writes to; same_object tells whether both names
\* are bound to one DataFrame object.

\* mutant: result = df, both names are the caller's object
FrameAlias(df) == [df |-> df, result |-> df, same_object |-> TRUE]

\* result = df.copy(): a new object with the contents of df
FrameCopy(df) == [df |-> df, result |-> df, same_object |-> FALSE]

\* a frame (column name -> column) with the given columns set
Overlay(frame, columns) ==
    [c \in DOMAIN frame \cup DOMAIN columns |->
        IF c \in DOMAIN columns THEN columns[c] ELSE frame[c]]

\* result[name] = column for every given column: the object result is
\* bound to changes, and df with it when it is the same object
AssignColumns(call, columns) ==
    [df |-> IF call.same_object THEN Overlay(call.df, columns) ELSE call.df,
     result |-> Overlay(call.result, columns),
     same_object |-> call.same_object]

\* ------------------------------------------------- atr_trailing_stop
MaxStopLen == 4

AnchorValues == {95, 100, 105, 110}

AtrValues == {2, 6}

Multipliers == {2}

\* one bar of the two input series: <<close cell, atr cell>>
StopBars ==
    {<<Num(a), Num(r)>> : a \in AnchorValues, r \in AtrValues}
        \cup {<<Num(a), NaN>> : a \in AnchorValues}
        \cup {<<NaN, Num(r)>> : r \in AtrValues}

\* mutant: a missing ATR counts as 0, the candidate is the anchor itself
CandidateStopAtrFilled(close, atr, multiplier) ==
    [i \in 1..Len(close) |->
        IF IsNa(close[i]) THEN NaN
        ELSE IF IsNa(atr[i]) THEN close[i]
        ELSE Num(Val(close[i]) - Val(atr[i]) * multiplier)]

\* candidate_stop = close - atr * multiplier (NaN when either operand is)
CandidateStop(close, atr, multiplier) ==
    [i \in 1..Len(close) |->
        IF IsNa(close[i]) \/ IsNa(atr[i]) THEN NaN
        ELSE Num(Val(close[i]) - Val(atr[i]) * multiplier)]

\* mutant: the stop-out branch is missing, the stop only ever ratchets up
RatchetStepNoReset(i, close_i, cand_i, prev) ==
    IF i = 1 \/ IsNa(prev) THEN cand_i
    ELSE Num(Max2(Val(prev), Val(cand_i)))

\* mutant: the stop follows the candidate, it never holds the previous stop
RatchetStepNoHold(i, close_i, cand_i, prev) ==
    cand_i

\* mutant: the hold branch takes the lower of previous stop and candidate
RatchetStepLower(i, close_i, cand_i, prev) ==
    IF i = 1 \/ IsNa(prev) THEN cand_i
    ELSE IF Val(close_i) < Val(prev) THEN cand_i
    ELSE IF Val(prev) <= Val(cand_i) THEN prev ELSE cand_i

\* the three assigning branches of the loop body, for a defined candidate;
\* prev is trailing_stop.iloc[i - 1] (not read when i is the first position)
RatchetStep(i, close_i, cand_i, prev) ==
    IF i = 1 \/ IsNa(prev) THEN cand_i
    ELSE IF Val(close_i) < Val(prev) THEN cand_i
    ELSE Num(Max2(Val(prev), Val(cand_i)))

\* the for loop: ts is trailing_stop so far (positions 1..i-1 assigned)
RECURSIVE StopLoop(_, _, _, _)
StopLoop(close, cand, ts, i) ==
    IF i > Len(close) THEN ts
    ELSE IF IsNa(cand[i]) THEN StopLoop(close, cand, ts, i + 1)
    ELSE StopLoop(close, cand,
                  [ts EXCEPT ![i] = RatchetStep(i, close[i], cand[i],
                                         IF i = 1 THEN NaN ELSE ts[i - 1])],
                  i + 1)

AtrTrailingStop(close, atr, multiplier) ==
    StopLoop(close, CandidateStop(close, atr, multiplier),
             [i \in 1..Len(close) |-> NaN], 1)

InitStop ==
    /\ phase = "input"
    /\ \E bars \in SeqsUpTo(StopBars, MaxStopLen) :
         /\ ts_close = [i \in 1..Len(bars) |-> bars[i][1]]
         /\ ts_atr = [i \in 1..Len(bars) |-> bars[i][2]]
    /\ ts_multiplier \in Multipliers
    /\ trailing_stop = <<>>
    /\ IdleDedup
    /\ IdleCis
    /\ IdleRs
    /\ IdleTech

CallAtrTrailingStop ==
    /\ phase = "input"
    /\ trailing_stop' = AtrTrailingStop(ts_close, ts_atr, ts_multiplier)
    /\ phase' = "stopped"
    /\ UNCHANGED <<ts_close, ts_atr, ts_multiplier, dedupVars, cisVars, rsVars,
                   techVars>>

NextStop == CallAtrTrailingStop

SpecStop == InitStop /\ [][NextStop]_vars

\* ------------------------------------------------ deduplicate_signals
MaxRows == 4

\* flag columns in the order get_signal_type tests them, with their labels
SignalMapping(strategy) ==
    IF strategy = "CIS"
    THEN << <<"signal_reverse_buy", "CIS_reverse_buy">>,
            <<"signal_buy", "CIS_buy">>,
            <<"signal_sell", "CIS_sell">> >>
    ELSE << <<"signal_green_arrow", "green_arrow">>,
            <<"signal_green_triangle", "green_triangle">>,
            <<"signal_green_ball", "green_ball">>,
            <<"signal_red_arrow", "red_arrow">>,
            <<"signal_red_triangle", "red_triangle">>,
            <<"signal_red_ball", "red_ball">> >>

\* the sets of true flag columns a row of the argument may carry
FlagSets(strategy) ==
    IF strategy = "CIS"
    THEN SUBSET {"signal_reverse_buy", "signal_buy", "signal_sell"}
    ELSE { {}, {"signal_green_arrow"}, {"signal_green_triangle"},
           {"signal_green_arrow", "signal_green_triangle", "signal_green_ball"},
           {"signal_red_arrow"}, {"signal_red_arrow", "signal_red_ball"} }

\* get_signal_type: the labels of the true flags in mapping order; the
\* ', '-joined string is this sequence (no label contains the separator),
\* None is the empty sequence
RECURSIVE JoinLabels(_, _, _)
JoinLabels(mapping, flags, k) ==
    IF k > Len(mapping) THEN <<>>
    ELSE (IF mapping[k][1] \in flags THEN <<mapping[k][2]>> ELSE <<>>)
            \o JoinLabels(mapping, flags, k + 1)

\* mutant: an if / elif chain, only the first true flag is named
GetSignalTypeFirstOnly(strategy, row) ==
    LET labels == JoinLabels(SignalMapping(strategy), row.flags, 1)
    IN  IF labels = <<>> THEN <<>> ELSE <<labels[1]>>

GetSignalType(strategy, row) == JoinLabels(SignalMapping(strategy), row.flags, 1)

None == <<>>

\* df_work['signal_type'] = df_work.apply(get_signal_type, axis=1)
WithSignalType(strategy, df) ==
    [i \in 1..Len(df) |->
        [idx |-> df[i].idx, flags |-> df[i].flags,
         signal_type |-> GetSignalType(strategy, df[i])]]

\* df_work[df_work['signal_type'].notna()]
NotNaRows(df_work) == SelectSeq(df_work, LAMBDA r : r.signal_type # None)

\* mutant: adjacency taken inside the filtered list, where the previous
\* filtered row is always the neighbour
IsConsecutiveFiltered(prev_idx, idx) == prev_idx # {}

\* mutant: off-by-one adjacency
IsConsecutiveOffByOne(prev_idx, idx) ==
    prev_idx # {} /\ idx - Val(prev_idx) = 2

\* mutant: adjacency reaches across one bar
IsConsecutiveWithin2(prev_idx, idx) ==
    prev_idx # {} /\ idx - Val(prev_idx) <= 2

\* is_consecutive = (prev_idx is not None) and (idx - prev_idx == 1)
IsConsecutive(prev_idx, idx) ==
    prev_idx # {} /\ idx - Val(prev_idx) = 1

\* the for loop over signal_df.iterrows(): keep_mask from row k on
RECURSIVE KeepMask(_, _, _, _)
KeepMask(signal_df, k, prev_signal, prev_idx) ==
    IF k > Len(signal_df) THEN <<>>
    ELSE LET row == signal_df[k]
             is_consecutive == IsConsecutive(prev_idx, row.idx)
             is_same == row.signal_type = prev_signal
             keep == ~(is_consecutive /\ is_same)
         IN  <<keep>> \o KeepMask(signal_df, k + 1, row.signal_type, {row.idx})

\* mutant: the returned frame is renumbered (reset_index(drop=True))
MaskedRowsReindexed(signal_df, keep_mask) ==
    LET kept == {k \in 1..Len(signal_df) : keep_mask[k]}
        F[k \in 0..Len(signal_df)] ==
            IF k = 0 THEN <<>>
            ELSE IF k \in kept
                 THEN Append(F[k - 1],
                             [signal_df[k] EXCEPT !.idx = Len(F[k - 1])])
                 ELSE F[k - 1]
    IN  F[Len(signal_df)]

\* signal_df[keep_mask]: the rows whose mask entry is True, index kept
MaskedRows(signal_df, keep_mask) ==
    LET kept == {k \in 1..Len(signal_df) : keep_mask[k]}
        F[k \in 0..Len(signal_df)] ==
            IF k = 0 THEN <<>>
            ELSE IF k \in kept THEN Append(F[k - 1], signal_df[k])
                 ELSE F[k - 1]
    IN  F[Len(signal_df)]

\* the whole call: df_work = df.copy() receives the signal_type column,
\* signal_df and the returned frame are new objects
DeduplicateSignalsCall(strategy, df) ==
    LET call == FrameCopy(df)
        df_work == WithSignalType(strategy, call.result)
        signal_df == NotNaRows(df_work)
    IN  [df |-> IF call.same_object THEN df_work ELSE call.df,
         signal_df |-> signal_df,
         result |-> IF signal_df = <<>> THEN signal_df
                    ELSE MaskedRows(signal_df,
                                    KeepMask(signal_df, 1, None, {}))]

DeduplicateSignals(strategy, df) ==
    DeduplicateSignalsCall(strategy, df).result

\* the frame the pages pass: rows 0..n-1 after reset_index(drop=True)
RangeFrame(flagseq) ==
    [i \in 1..Len(flagseq) |-> [idx |-> i - 1, flags |-> flagseq[i]]]

InitDedup ==
    /\ phase = "input"
    /\ dd_strategy \in {"CIS", "RSMACD"}
    /\ \E flagseq \in SeqsUpTo(FlagSets(dd_strategy), MaxRows) :
         dd_frame = RangeFrame(flagseq)
    /\ dd_signal_df = <<>>
    /\ dd_events = <<>>
    /\ dd_events2 = <<>>
    /\ IdleStop
    /\ IdleCis
    /\ IdleRs
    /\ IdleTech

CallDeduplicateSignals ==
    /\ phase = "input"
    /\ LET call == DeduplicateSignalsCall(dd_strategy, dd_frame)
       IN  /\ dd_frame' = call.df
           /\ dd_signal_df' = call.signal_df
           /\ dd_events' = call.result
    /\ phase' = "deduplicated"
    /\ UNCHANGED <<dd_strategy, dd_events2, stopVars, cisVars, rsVars,
                   techVars>>

\* the output of the first call (flag columns and index kept) passed again
CallDeduplicateSignalsAgain ==
    /\ phase = "deduplicated"
    /\ dd_events2' = DeduplicateSignals(dd_strategy,
            [i \in 1..Len(dd_events) |->
                [idx |-> dd_events[i].idx, flags |-> dd_events[i].flags]])
    /\ phase' = "deduplicated twice"
    /\ UNCHANGED <<dd_strategy, dd_frame, dd_signal_df, dd_events,
                   stopVars, cisVars, rsVars,
                   techVars>>

NextDedup == CallDeduplicateSignals \/ CallDeduplicateSignalsAgain

SpecDedup == InitDedup /\ [][NextDedup]_vars

\* ------------------------------------------------------ exact fractions
\* a defined ratio cell {<<n, d>>}, d > 0
Frac(n, d) == {<<n, d>>}

\* mutant: a missing operand is read as 0 instead of making the test False
FLtNaFilled(a, b) ==
    LET av == IF IsNa(a) THEN <<0, 1>> ELSE Val(a)
        bv == IF IsNa(b) THEN <<0, 1>> ELSE Val(b)
    IN  av[1] * bv[2] < bv[1] * av[2]

\* a < b on float cells: False when either side is NaN
FLt(a, b) ==
    /\ ~IsNa(a) /\ ~IsNa(b)
    /\ Val(a)[1] * Val(b)[2] < Val(b)[1] * Val(a)[2]

FGt(a, b) == FLt(b, a)

Abs(x) == IF x < 0 THEN -x ELSE x

\* Series.shift(1): the cell one row earlier, NaN on the first row
Shift1(series, i) == IF i = 1 THEN NaN ELSE series[i - 1]

\* Series.rolling(window).mean() of a column without missing values:
\* NaN on the first window-1 rows, then sum of the trailing window / window
RECURSIVE RollingMeanFrom(_, _, _, _, _)
RollingMeanFrom(series, window, i, running, out) ==
    IF i > Len(series) THEN out
    ELSE LET total == running + series[i]
                        - (IF i > window THEN series[i - window] ELSE 0)
         IN  RollingMeanFrom(series, window, i + 1, total,
                Append(out, IF i < window THEN NaN ELSE Frac(total, window)))

RollingMean(series, window) == RollingMeanFrom(series, window, 1, 0, <<>>)

\* (bool Series).rolling(window).min() == 1
RollingAll(bools, window, i) ==
    i >= window /\ \A k \in (i - window + 1)..i : bools[k]

\* ------------------------------------------- Strategy A (CIS + 2560)
SMA5Window == 5

SMA25Window == 25

VolSMA5Window == 5

VolSMA60Window == 60

FlatPeriods == 3

\* threshold = 0.003 as thousandths
FlatThresholdPerMille == 3

BullishPeriods == 2

\* the whole call: result = df.copy(), then the four columns are assigned
CisComputeIndicatorsCall(df) ==
    AssignColumns(FrameCopy(df),
                  [SMA5 |-> RollingMean(df.close, SMA5Window),
                   SMA25 |-> RollingMean(df.close, SMA25Window),
                   Vol_SMA5 |-> RollingMean(df.vol, VolSMA5Window),
                   Vol_SMA60 |-> RollingMean(df.vol, VolSMA60Window)])

\* the returned frame: the input columns and the four averages
CisComputeIndicators(df) == CisComputeIndicatorsCall(df).result

\* Series.ffill(), the fill pct_change applies before dividing
RECURSIVE FFill(_, _)
FFill(series, i) ==
    IF i = 0 THEN NaN
    ELSE IF ~IsNa(series[i]) THEN series[i] ELSE FFill(series, i - 1)

\* (ma_series.pct_change().abs() < threshold) on row i:
\* |x[i] / x[i-1] - 1| < threshold, False when the change is NaN or infinite
PctChangeBelow(series, i) ==
    LET cur == FFill(series, i)
        prev == FFill(series, i - 1)
    IN  /\ i > 1 /\ ~IsNa(cur) /\ ~IsNa(prev)
        /\ Val(prev)[1] # 0
        /\ 1000 * Abs(Val(cur)[1] * Val(prev)[2] - Val(prev)[1] * Val(cur)[2])
              < FlatThresholdPerMille * Abs(Val(prev)[1] * Val(cur)[2])

\* mutant: flatness judged on 2 changes instead of 3
IsMaFlatShort(ma_series, i) ==
    i >= 2 /\ \A k \in (i - 1)..i : PctChangeBelow(ma_series, k)

IsMaFlat(ma_series, i) ==
    RollingAll([k \in 1..Len(ma_series) |-> PctChangeBelow(ma_series, k)],
               FlatPeriods, i)

IsMaUp(ma_series, i) == FGt(ma_series[i], Shift1(ma_series, i))

IsMaDown(ma_series, i) == FLt(ma_series[i], Shift1(ma_series, i))

IsConsecutiveBullish(close, open, i) ==
    RollingAll([k \in 1..Len(close) |-> close[k] > open[k]],
               BullishPeriods, i)

VolConfirm(df, i) == FGt(df.Vol_SMA5[i], df.Vol_SMA60[i])

\* mutant: the reverse-buy price test has the wrong sign
ReverseBuyRuleAbove(df, i) ==
    /\ FGt(Frac(df.close[i], 1), df.SMA25[i])
    /\ (IsMaFlat(df.SMA25, i) \/ IsMaUp(df.SMA25, i))
    /\ IsMaUp(df.SMA5, i)
    /\ IsConsecutiveBullish(df.close, df.open, i)

\* lines 109-114, before the volume gate
ReverseBuyRule(df, i) ==
    /\ FLt(Frac(df.close[i], 1), df.SMA25[i])
    /\ (IsMaFlat(df.SMA25, i) \/ IsMaUp(df.SMA25, i))
    /\ IsMaUp(df.SMA5, i)
    /\ IsConsecutiveBullish(df.close, df.open, i)

\* lines 119-123, before the volume gate
BuyRule(df, i) ==
    /\ (IsMaFlat(df.SMA25, i) \/ IsMaUp(df.SMA25, i))
    /\ FGt(df.SMA5[i], df.SMA25[i])
    /\ FGt(Frac(df.close[i], 1), df.SMA5[i])

\* line 128
SellRule(df, i) ==
    /\ IsMaDown(df.SMA5, i)
    /\ FLt(Frac(df.close[i], 1), df.SMA5[i])

\* mutant: the volume gate is applied whatever the toggle says
VolumeGateAlways(flag, df, enable_volume_confirmation, i) ==
    flag /\ VolConfirm(df, i)

\* lines 115-116 and 124-125
VolumeGate(flag, df, enable_volume_confirmation, i) ==
    IF enable_volume_confirmation THEN flag /\ VolConfirm(df, i) ELSE flag

\* mutant: the sell signal is gated by the volume confirmation too
CisGenerateSignalsSellGated(df, enable_volume_confirmation) ==
    [signal_reverse_buy |->
        [i \in 1..Len(df.close) |->
            VolumeGate(ReverseBuyRule(df, i), df,
                       enable_volume_confirmation, i)],
     signal_buy |->
        [i \in 1..Len(df.close) |->
            VolumeGate(BuyRule(df, i), df, enable_volume_confirmation, i)],
     signal_sell |->
        [i \in 1..Len(df.close) |->
            VolumeGate(SellRule(df, i), df, enable_volume_confirmation, i)]]

\* the three flag columns generate_signals adds
CisGenerateSignals(df, enable_volume_confirmation) ==
    [signal_reverse_buy |->
        [i \in 1..Len(df.close) |->
            VolumeGate(ReverseBuyRule(df, i), df,
                       enable_volume_confirmation, i)],
     signal_buy |->
        [i \in 1..Len(df.close) |->
            VolumeGate(BuyRule(df, i), df, enable_volume_confirmation, i)],
     signal_sell |-> [i \in 1..Len(df.close) |-> SellRule(df, i)]]

\* the whole call: result = df.copy(), then the flag columns are assigned
CisGenerateSignalsCall(df, enable_volume_confirmation) ==
    AssignColumns(FrameCopy(df),
                  CisGenerateSignals(df, enable_volume_confirmation))

\* ---- the price frames: two level segments, then a free tail
MaxTail == 3

\* a bar is <<close, open, vol>>
FlatBar == <<100, 99, 1000>>

HighBar == <<104, 103, 1000>>

\* <<bar of the first segment, its length, length of the FlatBar segment>>
LevelPrefixes ==
    {<<FlatBar, 0, 0>>, <<FlatBar, 24, 0>>,
     <<FlatBar, 20, 10>>, <<FlatBar, 50, 10>>,
     <<HighBar, 50, 10>>, <<HighBar, 40, 20>>}

TailBars ==
    {<<101, 100, 1000>>, <<102, 101, 3000>>, <<130, 129, 1000>>,
     <<96, 97, 3000>>, <<102, 103, 1000>>}

Repeat(bar, n) == [i \in 1..n |-> bar]

PriceFrame(bars) ==
    [close |-> [i \in 1..Len(bars) |-> bars[i][1]],
     open |-> [i \in 1..Len(bars) |-> bars[i][2]],
     vol |-> [i \in 1..Len(bars) |-> bars[i][3]]]

InitCis ==
    /\ phase = "input"
    /\ \E pre \in LevelPrefixes, tail \in SeqsUpTo(TailBars, MaxTail) :
         cis_bars = PriceFrame(Repeat(pre[1], pre[2])
                                \o Repeat(FlatBar, pre[3]) \o tail)
    /\ cis_enable \in BOOLEAN
    /\ cis_frame = <<>>
    /\ cis_signals = <<>>
    /\ cis_other = <<>>
    /\ cis_swapped = <<>>
    /\ cis_events = <<>>
    /\ IdleStop
    /\ IdleDedup
    /\ IdleRs
    /\ IdleTech

CallCisComputeIndicators ==
    /\ phase = "input"
    /\ LET call == CisComputeIndicatorsCall(cis_bars)
       IN  cis_bars' = call.df /\ cis_frame' = call.result
    /\ phase' = "indicators"
    /\ UNCHANGED <<cis_enable, cis_signals, cis_other, cis_swapped,
                   cis_events, stopVars, dedupVars, rsVars,
                   techVars>>

CallCisGenerateSignals ==
    /\ phase = "indicators"
    /\ LET call == CisGenerateSignalsCall(cis_frame, cis_enable)
       IN  cis_frame' = call.df /\ cis_signals' = call.result
    /\ phase' = "signals"
    /\ UNCHANGED <<cis_bars, cis_enable, cis_other, cis_swapped,
                   cis_events, stopVars, dedupVars, rsVars,
                   techVars>>

\* the same frame under the other toggle value, and under the same toggle
\* with the two volume averages exchanged
CallCisGenerateSignalsVariants ==
    /\ phase = "signals"
    /\ cis_other' = CisGenerateSignals(cis_frame, ~cis_enable)
    /\ cis_swapped' = CisGenerateSignals(
            [cis_frame EXCEPT !.Vol_SMA5 = cis_frame.Vol_SMA60,
                              !.Vol_SMA60 = cis_frame.Vol_SMA5],
            cis_enable)
    /\ phase' = "variants"
    /\ UNCHANGED <<cis_bars, cis_enable, cis_frame, cis_signals,
                   cis_events, stopVars, dedupVars, rsVars,
                   techVars>>

\* the frame generate_signals returns, as deduplicate_signals reads it: one
\* row per bar under the 0..n-1 index, with its true flag columns
SignalFrame(strategy, signals, n) ==
    [i \in 1..n |->
        [idx |-> i - 1,
         flags |-> {SignalMapping(strategy)[k][1] :
                        k \in {j \in 1..Len(SignalMapping(strategy)) :
                                  signals[SignalMapping(strategy)[j][1]][i]}}]]

\* the page's next call: deduplicate_signals on the signal frame
CallCisDeduplicateSignals ==
    /\ phase = "signals"
    /\ cis_events' = DeduplicateSignals("CIS",
            SignalFrame("CIS", cis_signals, Len(cis_bars.close)))
    /\ phase' = "events"
    /\ UNCHANGED <<cis_bars, cis_enable, cis_frame, cis_signals, cis_other,
                   cis_swapped, stopVars, dedupVars, rsVars,
                   techVars>>

NextCis ==
    \/ CallCisComputeIndicators
    \/ CallCisGenerateSignals
    \/ CallCisGenerateSignalsVariants
    \/ CallCisDeduplicateSignals

SpecCis == InitCis /\ [][NextCis]_vars

\* ------------------------------------------------ Strategy B (RSMACD)
\* a <= b on float cells: False when either side is NaN
FLe(a, b) ==
    /\ ~IsNa(a) /\ ~IsNa(b)
    /\ Val(a)[1] * Val(b)[2] <= Val(b)[1] * Val(a)[2]

FGe(a, b) == FLe(b, a)

\* Series.shift(n): the cell n rows earlier, NaN on the first n rows
ShiftN(series, n, i) == IF i <= n THEN NaN ELSE series[i - n]

\* result['macd_line'].diff(): NaN on the first row
MacdDelta(macd_line) ==
    [i \in 1..Len(macd_line) |->
        IF i = 1 THEN NaN ELSE Frac(macd_line[i] - macd_line[i - 1], 1)]

\* Series.clip(lower=0): NaN stays NaN
ClipLower0(c) ==
    IF IsNa(c) THEN NaN
    ELSE IF Val(c)[1] < 0 THEN Frac(0, Val(c)[2]) ELSE c

Neg(c) == IF IsNa(c) THEN NaN ELSE Frac(-Val(c)[1], Val(c)[2])

GainOf(macd_delta) ==
    [i \in 1..Len(macd_delta) |-> ClipLower0(macd_delta[i])]

\* mutant: the negation of the delta is missing
LossOfUnnegated(macd_delta) ==
    [i \in 1..Len(macd_delta) |-> ClipLower0(macd_delta[i])]

LossOf(macd_delta) ==
    [i \in 1..Len(macd_delta) |-> ClipLower0(Neg(macd_delta[i]))]

\* Series.ewm(alpha=1/rsi_period, min_periods=rsi_period, adjust=False)
\* .mean(): the first observation seeds the average, each later one gives
\* weighted = ((rsi_period - 1) * weighted + cur) / rsi_period; a row is
\* emitted once min_periods observations have been seen, NaN before.
\* weighted and nobs are the running state before row i.
RECURSIVE EwmFrom(_, _, _, _, _, _)
EwmFrom(series, rsi_period, i, weighted, nobs, out) ==
    IF i > Len(series) THEN out
    ELSE LET cur == series[i]
             seen == IF IsNa(cur) THEN nobs ELSE nobs + 1
             w == IF IsNa(cur) THEN weighted
                  ELSE IF IsNa(weighted) THEN cur
                  ELSE Frac((rsi_period - 1) * Val(weighted)[1] * Val(cur)[2]
                                + Val(cur)[1] * Val(weighted)[2],
                            rsi_period * Val(weighted)[2] * Val(cur)[2])
         IN  EwmFrom(series, rsi_period, i + 1, w, seen,
                     Append(out, IF seen >= rsi_period THEN w ELSE NaN))

\* mutant: smoothing factor 1 whatever the period, the average is the last
\* observation
WilderMeanLastOnly(series, rsi_period) ==
    [i \in 1..Len(series) |-> IF i > rsi_period THEN series[i] ELSE NaN]

WilderMean(series, rsi_period) ==
    EwmFrom(series, rsi_period, 1, NaN, 0, <<>>)

IsZero(c) == ~IsNa(c) /\ Val(c)[1] = 0

RECURSIVE Gcd(_, _)
Gcd(a, b) == IF b = 0 THEN a ELSE Gcd(b, a % b)

\* the ratio n / d (n >= 0, d > 0) in lowest terms
Lowest(n, d) == Frac(n \div Gcd(n, d), d \div Gcd(n, d))

\* mutant: the ratio itself in percent, 100 * rs, without 100 - 100 / (1 + rs)
RsmacdRawRatio(avg_gain, avg_loss) ==
    IF IsNa(avg_gain) \/ IsNa(avg_loss) \/ IsZero(avg_loss) THEN NaN
    ELSE Lowest(100 * Val(avg_gain)[1] * Val(avg_loss)[2],
                Val(avg_loss)[1] * Val(avg_gain)[2])

\* lines 85-86: rs = avg_gain / avg_loss.replace(0, nan);
\* 100 - 100 / (1 + rs) = 100 * gain / (gain + loss), NaN when rs is
RsmacdRaw(avg_gain, avg_loss) ==
    IF IsNa(avg_gain) \/ IsNa(avg_loss) \/ IsZero(avg_loss) THEN NaN
    ELSE Lowest(100 * Val(avg_gain)[1] * Val(avg_loss)[2],
                Val(avg_gain)[1] * Val(avg_loss)[2]
                   + Val(avg_loss)[1] * Val(avg_gain)[2])

\* mutant: a missing average counts as 0 (the test is made on fillna(0))
BoundaryRuleFillsWarmUp(raw, avg_gain, avg_loss) ==
    LET capped == IF IsNa(avg_loss) \/ IsZero(avg_loss) THEN Frac(100, 1)
                  ELSE raw
    IN  IF IsNa(avg_gain) \/ IsZero(avg_gain) THEN Frac(0, 1) ELSE capped

\* mutant: the two substitutions in the other order, 100 wins over 0
BoundaryRuleSwapped(raw, avg_gain, avg_loss) ==
    LET zeroed == IF IsZero(avg_gain) THEN Frac(0, 1) ELSE raw
    IN  IF IsZero(avg_loss) THEN Frac(100, 1) ELSE zeroed

\* lines 89-90: rsmacd.where(avg_loss != 0, 100.0), then
\* .where(avg_gain != 0, 0.0); NaN != 0 is True, so a NaN average keeps
\* the cell
BoundaryRule(raw, avg_gain, avg_loss) ==
    LET capped == IF IsZero(avg_loss) THEN Frac(100, 1) ELSE raw
    IN  IF IsZero(avg_gain) THEN Frac(0, 1) ELSE capped

\* lines 74-92 of compute_indicators, from the MACD line
RsmacdColumns(macd_line, rsi_period) ==
    LET macd_delta == MacdDelta(macd_line)
        gain == GainOf(macd_delta)
        loss == LossOf(macd_delta)
        avg_gain == WilderMean(gain, rsi_period)
        avg_loss == WilderMean(loss, rsi_period)
    IN  [macd_line |-> macd_line, gain |-> gain, loss |-> loss,
         avg_gain |-> avg_gain, avg_loss |-> avg_loss,
         rsmacd |-> [i \in 1..Len(macd_line) |->
                        BoundaryRule(RsmacdRaw(avg_gain[i], avg_loss[i]),
                                     avg_gain[i], avg_loss[i])]]

\* mutant: a turn needs a strict fall before it, a level stretch is no turn
TurningUpStrict(rsmacd, i) ==
    /\ FGt(rsmacd[i], ShiftN(rsmacd, 1, i))
    /\ FLt(ShiftN(rsmacd, 1, i), ShiftN(rsmacd, 2, i))

\* mutant: any rise is a turn
TurningUpRisingOnly(rsmacd, i) ==
    FGt(rsmacd[i], ShiftN(rsmacd, 1, i))

TurningUp(rsmacd, i) ==
    /\ FGt(rsmacd[i], ShiftN(rsmacd, 1, i))
    /\ FLe(ShiftN(rsmacd, 1, i), ShiftN(rsmacd, 2, i))

\* mutant: the fall at the bar itself is not required
TurningDownNoFall(rsmacd, i) ==
    FGe(ShiftN(rsmacd, 1, i), ShiftN(rsmacd, 2, i))

TurningDown(rsmacd, i) ==
    /\ FLt(rsmacd[i], ShiftN(rsmacd, 1, i))
    /\ FGe(ShiftN(rsmacd, 1, i), ShiftN(rsmacd, 2, i))

\* the six flag columns generate_signals adds
RsmacdGenerateSignals(df) ==
    LET rsmacd == df.rsmacd
        rows == 1..Len(rsmacd)
    IN  [signal_green_arrow |-> [i \in rows |-> TurningUp(rsmacd, i)],
         signal_green_triangle |->
            [i \in rows |-> /\ FGt(rsmacd[i], Frac(30, 1))
                            /\ FLe(ShiftN(rsmacd, 1, i), Frac(30, 1))],
         signal_green_ball |->
            [i \in rows |-> /\ FGt(rsmacd[i], Frac(50, 1))
                            /\ FLe(ShiftN(rsmacd, 1, i), Frac(50, 1))
                            /\ TurningUp(rsmacd, i)],
         signal_red_arrow |-> [i \in rows |-> TurningDown(rsmacd, i)],
         signal_red_triangle |->
            [i \in rows |-> /\ FLt(rsmacd[i], Frac(70, 1))
                            /\ FGe(ShiftN(rsmacd, 1, i), Frac(70, 1))],
         signal_red_ball |->
            [i \in rows |-> /\ FLt(rsmacd[i], Frac(50, 1))
                            /\ FGe(ShiftN(rsmacd, 1, i), Frac(50, 1))
                            /\ TurningDown(rsmacd, i)]]

\* the whole call: result = df.copy(), then the flag columns are assigned
RsmacdGenerateSignalsCall(df) ==
    AssignColumns(FrameCopy(df), RsmacdGenerateSignals(df))

\* ---- the MACD lines: ema_fast[0] = ema_slow[0] = close[0], so the line
\* starts at 0; every later value is free (a close can be chosen to give it)
MaxMacdLen == 6

MaxRsiPeriod == 3

MacdSteps == {-2, -1, 0, 1, 2}

RECURSIVE Cumulate(_, _)
Cumulate(steps, k) ==
    IF k = 0 THEN <<0>>
    ELSE LET before == Cumulate(steps, k - 1)
         IN  Append(before, before[k] + steps[k])

InitRs ==
    /\ phase = "input"
    /\ \/ rs_macd_line = <<>>
       \/ \E steps \in SeqsUpTo(MacdSteps, MaxMacdLen - 1) :
            rs_macd_line = Cumulate(steps, Len(steps))
    /\ rs_period \in 1..MaxRsiPeriod
    /\ rs_frame = <<>>
    /\ rs_signals = <<>>
    /\ rs_events = <<>>
    /\ IdleStop
    /\ IdleDedup
    /\ IdleCis
    /\ IdleTech

CallRsmacdComputeIndicators ==
    /\ phase = "input"
    /\ rs_frame' = RsmacdColumns(rs_macd_line, rs_period)
    /\ phase' = "indicators"
    /\ UNCHANGED <<rs_macd_line, rs_period, rs_signals, rs_events,
                   stopVars, dedupVars, cisVars,
                   techVars>>

CallRsmacdGenerateSignals ==
    /\ phase = "indicators"
    /\ LET call == RsmacdGenerateSignalsCall(rs_frame)
       IN  rs_frame' = call.df /\ rs_signals' = call.result
    /\ phase' = "signals"
    /\ UNCHANGED <<rs_macd_line, rs_period, rs_events,
                   stopVars, dedupVars, cisVars,
                   techVars>>

\* the page's next call: deduplicate_signals on the signal frame
CallRsmacdDeduplicateSignals ==
    /\ phase = "signals"
    /\ rs_events' = DeduplicateSignals("RSMACD",
            SignalFrame("RSMACD", rs_signals, Len(rs_macd_line)))
    /\ phase' = "events"
    /\ UNCHANGED <<rs_macd_line, rs_period, rs_frame, rs_signals,
                   stopVars, dedupVars, cisVars,
                   techVars>>

NextRs ==
    \/ CallRsmacdComputeIndicators
    \/ CallRsmacdGenerateSignals
    \/ CallRsmacdDeduplicateSignals

SpecRs == InitRs /\ [][NextRs]_vars

\* ------------------------------------- TechnicalIndicators (technical.py)
MaxBars == 4

MaxWindow == 3

\* how a call ends: it returns a Series, or raises to the caller
TechResult(series) == [raised |-> FALSE, value |-> series]

TechRaised == [raised |-> TRUE, value |-> <<>>]

\* mutant: min_periods = 1, a mean is emitted on a partly filled window
RollingEmitPartial(total, nobs, window) ==
    IF nobs > 0 THEN Frac(total, nobs) ELSE NaN

\* the cell rolling(window).mean() emits: min_periods defaults to window, and
\* a mean needs at least one observation
RollingEmit(total, nobs, window) ==
    IF nobs >= window /\ nobs > 0 THEN Frac(total, nobs) ELSE NaN

\* Series.rolling(window).mean() on integer cells, window >= 0: the value
\* entering the window is added, the one leaving it removed, NaN cells are
\* not counted; total and nobs are the running state before row i
RECURSIVE RollingCellsFrom(_, _, _, _, _, _)
RollingCellsFrom(data, window, i, total, nobs, out) ==
    IF i > Len(data) THEN out
    ELSE LET gone == IF i > window THEN data[i - window] ELSE NaN
             t1 == IF IsNa(data[i]) THEN total ELSE total + Val(data[i])
             n1 == IF IsNa(data[i]) THEN nobs ELSE nobs + 1
             t2 == IF IsNa(gone) THEN t1 ELSE t1 - Val(gone)
             n2 == IF IsNa(gone) THEN n1 ELSE n1 - 1
         IN  RollingCellsFrom(data, window, i + 1, t2, n2,
                              Append(out, RollingEmit(t2, n2, window)))

RollingCells(data, window) == RollingCellsFrom(data, window, 1, 0, 0, <<>>)

\* Series.rolling(window=...) rejects a negative window with a ValueError
\* and accepts 0
RollingRaises(window) == window < 0

\* moving_average(data, window)
MovingAverage(data, window) ==
    IF RollingRaises(window) THEN TechRaised
    ELSE TechResult(RollingCells(data, window))

SetMax(S) == CHOOSE x \in S : \A y \in S : y <= x

\* mutant: the row maximum does not skip the missing previous close
TrueRangeSkipnaFalse(high, low, close) ==
    [i \in 1..Len(close) |->
        IF i = 1 THEN NaN
        ELSE Num(SetMax({high[i] - low[i], Abs(high[i] - close[i - 1]),
                         Abs(low[i] - close[i - 1])}))]

\* mutant: the gaps against the previous close are left out
TrueRangeNoGap(high, low, close) ==
    [i \in 1..Len(close) |-> Num(high[i] - low[i])]

\* atr lines 110-115: prev_close = close.shift(1); the row-wise max of
\* high - low, |high - prev_close|, |low - prev_close| skips NaN entries
TrueRange(high, low, close) ==
    [i \in 1..Len(close) |->
        LET prev_close == IF i = 1 THEN NaN ELSE Num(close[i - 1])
        IN  Num(SetMax({high[i] - low[i]}
                 \cup (IF IsNa(prev_close) THEN {}
                       ELSE {Abs(high[i] - Val(prev_close)),
                             Abs(low[i] - Val(prev_close))})))]

\* atr(high, low, close, period)
Atr(high, low, close, period) ==
    IF RollingRaises(period) THEN TechRaised
    ELSE TechResult(RollingCells(TrueRange(high, low, close), period))

\* data.diff(): NaN on the first row
Diff(data) ==
    [i \in 1..Len(data) |-> IF i = 1 THEN NaN ELSE Num(data[i] - data[i - 1])]

\* delta.where(delta > 0, 0): the cell is kept where the test is True and
\* replaced by 0 where it is False, which a NaN delta makes it
GainRaw(delta) ==
    [i \in 1..Len(delta) |->
        IF ~IsNa(delta[i]) /\ Val(delta[i]) > 0 THEN delta[i] ELSE Num(0)]

\* -delta.where(delta < 0, 0)
LossRaw(delta) ==
    [i \in 1..Len(delta) |->
        IF ~IsNa(delta[i]) /\ Val(delta[i]) < 0 THEN Num(-Val(delta[i]))
        ELSE Num(0)]

\* the float infinity a division by zero gives
Inf == {<<1, 0>>}

\* rs = gain / loss on float cells with gain, loss >= 0: x / 0 is inf,
\* 0 / 0 is NaN, nothing raises
FloatDivide(gain, loss) ==
    IF IsNa(gain) \/ IsNa(loss) THEN NaN
    ELSE IF Val(loss)[1] = 0
         THEN (IF Val(gain)[1] = 0 THEN NaN ELSE Inf)
    ELSE Frac(Val(gain)[1] * Val(loss)[2], Val(gain)[2] * Val(loss)[1])

\* rsi = 100 - (100 / (1 + rs)): 100 / inf is 0, so inf gives 100
RsiNormalize(rs) ==
    IF IsNa(rs) THEN NaN
    ELSE IF rs = Inf THEN Frac(100, 1)
    ELSE Frac(100 * Val(rs)[1], Val(rs)[1] + Val(rs)[2])

\* the intermediate Series of rsi(data, period), period >= 0
RsiColumns(data, period) ==
    LET delta == Diff(data)
        gain == RollingCells(GainRaw(delta), period)
        loss == RollingCells(LossRaw(delta), period)
    IN  [delta |-> delta, gain |-> gain, loss |-> loss,
         rsi |-> [i \in 1..Len(data) |->
                    RsiNormalize(FloatDivide(gain[i], loss[i]))]]

\* rsi(data, period)
Rsi(data, period) ==
    IF RollingRaises(period) THEN TechRaised
    ELSE TechResult(RsiColumns(data, period).rsi)

\* --------------------------------- StatisticalIndicators (statistics.py)
RECURSIVE SeqSum(_, _)
SeqSum(s, k) == IF k = 0 THEN 0 ELSE s[k] + SeqSum(s, k - 1)

\* a float scalar: NaN, an infinity, or the finite value sign * sqrt(square)
ScalarNaN == [kind |-> "nan", sign |-> 0, square |-> NaN]

ScalarInf(sign) == [kind |-> "inf", sign |-> sign, square |-> NaN]

ScalarFinite(sign, square) ==
    [kind |-> "finite", sign |-> sign, square |-> square]

Sign(x) == IF x > 0 THEN 1 ELSE IF x < 0 THEN -1 ELSE 0

\* sharpe_ratio lines 55-56 on a Series of integers without missing cells:
\* mean() is NaN on an empty Series, std() (ddof = 1) is NaN on fewer than
\* two values; the numpy division by a zero std does not raise, it gives an
\* infinity (0 / 0: NaN).  With S the sum and Q the sum of squares of the n
\* excess returns, mean = S / n and std^2 = (n Q - S^2) / (n (n - 1)), so
\* (mean / std * sqrt(252))^2 = 252 S^2 (n - 1) / (n (n Q - S^2))
SharpeRatio(returns, risk_free_rate) ==
    LET n == Len(returns)
        excess_returns == [i \in 1..n |-> returns[i] - risk_free_rate]
        S == SeqSum(excess_returns, n)
        Q == SeqSum([i \in 1..n |-> excess_returns[i] * excess_returns[i]], n)
        spread == n * Q - S * S
    IN  IF n < 2 THEN ScalarNaN
        ELSE IF spread = 0
             THEN (IF S = 0 THEN ScalarNaN ELSE ScalarInf(Sign(S)))
        ELSE ScalarFinite(Sign(S), Frac(252 * S * S * (n - 1), n * spread))

\* data.cummax()
CumMax(data) ==
    [i \in 1..Len(data) |-> SetMax({data[k] : k \in 1..i})]

\* drawdown = (data - cumulative_max) / cumulative_max
Drawdown(data) ==
    [i \in 1..Len(data) |-> Frac(data[i] - CumMax(data)[i], CumMax(data)[i])]

\* mutant: the last position of the minimum instead of the first
ArgMinLast(series) ==
    CHOOSE p \in 1..Len(series) :
        /\ \A q \in 1..Len(series) : FLe(series[p], series[q])
        /\ \A q \in (p + 1)..Len(series) : FLt(series[p], series[q])

\* drawdown.idxmin(): the first position of the minimum
ArgMinFirst(series) ==
    CHOOSE p \in 1..Len(series) :
        /\ \A q \in 1..Len(series) : FLe(series[p], series[q])
        /\ \A q \in 1..(p - 1) : FLt(series[p], series[q])

\* max_drawdown(data) on a Series of positive integers under the default
\* 0..n-1 index; on an empty Series idxmin() raises a ValueError
MaxDrawdown(data) ==
    IF data = <<>> THEN TechRaised
    ELSE LET drawdown == Drawdown(data)
             at == ArgMinFirst(drawdown)
         IN  TechResult([max_drawdown |-> drawdown[at],
                         max_drawdown_date |-> at - 1,
                         drawdown_series |-> drawdown])

\* ---- the calls: a few bars <<high, low, close>>, a series with missing
\* cells for the moving average, windows around 0
TechBars == {<<11, 9, 10>>, <<10, 10, 10>>, <<14, 12, 13>>, <<12, 8, 9>>}

TechCells == {NaN, Num(9), Num(10), Num(13)}

TechStopBars ==
    {<<Num(100), Num(2)>>, <<Num(105), Num(6)>>, <<Num(90), Num(2)>>,
     <<Num(95), NaN>>}

TechWindows == (-1)..MaxWindow

TechMultipliers == {-2, 0, 2}

\* daily returns (in percent) and prices for the statistics
ReturnValues == {-1, 0, 2}

RiskFreeRates == {0, 1}

PriceValues == {8, 10, 12, 15}

InitTech ==
    /\ phase = "input"
    /\ \/ /\ tech_fn = "moving_average"
          /\ \E data \in SeqsUpTo(TechCells, MaxBars), window \in TechWindows :
               tech_args = [data |-> data, window |-> window]
       \/ /\ tech_fn \in {"atr", "rsi"}
          /\ \E bars \in SeqsUpTo(TechBars, MaxBars), period \in TechWindows :
               tech_args = [high |-> [i \in 1..Len(bars) |-> bars[i][1]],
                            low |-> [i \in 1..Len(bars) |-> bars[i][2]],
                            close |-> [i \in 1..Len(bars) |-> bars[i][3]],
                            period |-> period]
       \/ /\ tech_fn = "atr_trailing_stop"
          /\ \E bars \in SeqsUpTo(TechStopBars, MaxBars),
                multiplier \in TechMultipliers :
               tech_args = [close |-> [i \in 1..Len(bars) |-> bars[i][1]],
                            atr |-> [i \in 1..Len(bars) |-> bars[i][2]],
                            multiplier |-> multiplier]
       \/ /\ tech_fn = "sharpe_ratio"
          /\ \E returns \in SeqsUpTo(ReturnValues, MaxBars),
                risk_free_rate \in RiskFreeRates :
               tech_args = [returns |-> returns,
                            risk_free_rate |-> risk_free_rate]
       \/ /\ tech_fn = "max_drawdown"
          /\ \E data \in SeqsUpTo(PriceValues, MaxBars) :
               tech_args = [data |-> data]
    /\ tech_out = <<>>
    /\ IdleStop
    /\ IdleDedup
    /\ IdleCis
    /\ IdleRs

CallMovingAverage ==
    /\ phase = "input" /\ tech_fn = "moving_average"
    /\ tech_out' = MovingAverage(tech_args.data, tech_args.window)
    /\ phase' = "returned"
    /\ UNCHANGED <<tech_fn, tech_args, stopVars, dedupVars, cisVars, rsVars>>

CallAtr ==
    /\ phase = "input" /\ tech_fn = "atr"
    /\ tech_out' = Atr(tech_args.high, tech_args.low, tech_args.close,
                       tech_args.period)
    /\ phase' = "returned"
    /\ UNCHANGED <<tech_fn, tech_args, stopVars, dedupVars, cisVars, rsVars>>

CallRsi ==
    /\ phase = "input" /\ tech_fn = "rsi"
    /\ tech_out' = Rsi(tech_args.close, tech_args.period)
    /\ phase' = "returned"
    /\ UNCHANGED <<tech_fn, tech_args, stopVars, dedupVars, cisVars, rsVars>>

\* atr_trailing_stop has no statement that raises
CallTechAtrTrailingStop ==
    /\ phase = "input" /\ tech_fn = "atr_trailing_stop"
    /\ tech_out' = TechResult(AtrTrailingStop(tech_args.close, tech_args.atr,
                                              tech_args.multiplier))
    /\ phase' = "returned"
    /\ UNCHANGED <<tech_fn, tech_args, stopVars, dedupVars, cisVars, rsVars>>

CallSharpeRatio ==
    /\ phase = "input" /\ tech_fn = "sharpe_ratio"
    /\ tech_out' = TechResult(SharpeRatio(tech_args.returns,
                                          tech_args.risk_free_rate))
    /\ phase' = "returned"
    /\ UNCHANGED <<tech_fn, tech_args, stopVars, dedupVars, cisVars, rsVars>>

CallMaxDrawdown ==
    /\ phase = "input" /\ tech_fn = "max_drawdown"
    /\ tech_out' = MaxDrawdown(tech_args.data)
    /\ phase' = "returned"
    /\ UNCHANGED <<tech_fn, tech_args, stopVars, dedupVars, cisVars, rsVars>>

NextTech ==
    \/ CallMovingAverage
    \/ CallAtr
    \/ CallRsi
    \/ CallTechAtrTrailingStop
    \/ CallSharpeRatio
    \/ CallMaxDrawdown

SpecTech == InitTech /\ [][NextTech]_vars

\* ------------------------------------------------------------ C1, C2
StopDone == phase = "stopped"

\* candidate[i] as the claims define it, from the call's arguments
ClaimCandidate(i) ==
    IF IsNa(ts_close[i]) \/ IsNa(ts_atr[i]) THEN NaN
    ELSE Num(Val(ts_close[i]) - Val(ts_atr[i]) * ts_multiplier)

NoStopBefore(i) == i = 1 \/ IsNa(trailing_stop[i - 1])

StopOutAt(i) ==
    /\ i > 1
    /\ ~IsNa(trailing_stop[i - 1])
    /\ ~IsNa(ClaimCandidate(i))
    /\ Val(ts_close[i]) < Val(trailing_stop[i - 1])

ScenarioInput ==
    /\ ts_close = <<Num(100), Num(105), Num(95), Num(110)>>
    /\ ts_atr = <<Num(2), Num(2), Num(2), Num(2)>>
    /\ ts_multiplier = 2

AdjacentStops(i) ==
    i > 1 /\ ~IsNa(trailing_stop[i - 1]) /\ ~IsNa(trailing_stop[i])

\* every bar of j+1..k has defined stops around it and anchor >= previous stop
HeldRun(j, k) ==
    \A i \in (j + 1)..k :
        AdjacentStops(i) /\ Val(ts_close[i]) >= Val(trailing_stop[i - 1])

DedupDone == phase \in {"deduplicated", "deduplicated twice"}

\* the label of the bar at position p of the argument frame
BarLabel(p) == GetSignalType(dd_strategy, dd_frame[p])

\* positions a..b are a maximal unbroken run of one non-empty label
MaximalRun(a, b) ==
    /\ a <= b
    /\ BarLabel(a) # None
    /\ \A p \in a..b : BarLabel(p) = BarLabel(a)
    /\ a = 1 \/ BarLabel(a - 1) # BarLabel(a)
    /\ b = Len(dd_frame) \/ BarLabel(b + 1) # BarLabel(b)

\* the positions in dd_events of the events whose source row lies in a..b
EventsOfRows(a, b) ==
    {e \in 1..Len(dd_events) :
        \E p \in a..b : dd_events[e].idx = dd_frame[p].idx}

FlaggedRows == {p \in 1..Len(dd_frame) : BarLabel(p) # None}

\* C3: one event per maximal unbroken run of an identical non-empty label,
\* at the run's first bar; a run interrupted by a label-free or a
\* differently-labelled bar is two runs; adjacency is that of the rows of
\* the argument frame.
C3_OneEventPerRun ==
    DedupDone =>
        /\ \A a \in 1..Len(dd_frame) : \A b \in a..Len(dd_frame) :
             MaximalRun(a, b) =>
                /\ Cardinality(EventsOfRows(a, b)) = 1
                /\ \A e \in EventsOfRows(a, b) :
                     /\ dd_events[e].idx = dd_frame[a].idx
                     /\ dd_events[e].signal_type = BarLabel(a)
                     /\ dd_events[e].flags = dd_frame[a].flags
        /\ \A e \in 1..Len(dd_events) :
             \E p \in FlaggedRows : dd_events[e].idx = dd_frame[p].idx
        /\ \A e \in 1..Len(dd_events) : \A f \in 1..Len(dd_events) :
             e < f => dd_events[e].idx < dd_events[f].idx

\* a run of length >= 2, a label-free bar, then the same label again: two
\* events of one label
C3_Witness ==
    /\ DedupDone
    /\ \E a \in 1..Len(dd_frame) : \E b \in a..Len(dd_frame) :
         /\ MaximalRun(a, b)
         /\ b > a
         /\ b + 2 <= Len(dd_frame)
         /\ BarLabel(b + 1) = None
         /\ BarLabel(b + 2) = BarLabel(a)
         /\ Cardinality(EventsOfRows(a, b + 2)) = 2

\* C4: de-duplicating the output of deduplicate_signals again returns the
\* same events.
C4_DedupIdempotent ==
    phase = "deduplicated twice" => dd_events2 = dd_events

\* the first pass dropped a row and kept two events of one label
C4_Witness ==
    /\ phase = "deduplicated twice"
    /\ Len(dd_events) < Cardinality(FlaggedRows)
    /\ \E e \in 1..Len(dd_events) : \E f \in 1..Len(dd_events) :
         /\ e < f
         /\ dd_events[e].signal_type = dd_events[f].signal_type

\* C5: no two kept events come from adjacent source rows and carry the
\* same label.
C5_NoAdjacentSameLabel ==
    DedupDone =>
        \A e \in 1..Len(dd_events) : \A f \in 1..Len(dd_events) :
            dd_events[f].idx - dd_events[e].idx = 1
                => dd_events[e].signal_type # dd_events[f].signal_type

\* kept events from adjacent rows (different labels) next to a dropped row
C5_Witness ==
    /\ DedupDone
    /\ Len(dd_events) < Cardinality(FlaggedRows)
    /\ \E e \in 1..Len(dd_events) : \E f \in 1..Len(dd_events) :
         dd_events[f].idx - dd_events[e].idx = 1

\* ------------------------------------------------------------ C6, C7, C8
CisSignalsDone == phase \in {"signals", "variants"}

CisBars == 1..Len(cis_bars.close)

\* the flag columns computed with the toggle on, and with it off
SignalsToggleOn == IF cis_enable THEN cis_signals ELSE cis_other

SignalsToggleOff == IF cis_enable THEN cis_other ELSE cis_signals

ClaimVolConfirm(i) ==
    /\ ~IsNa(cis_frame.Vol_SMA5[i]) /\ ~IsNa(cis_frame.Vol_SMA60[i])
    /\ FGt(cis_frame.Vol_SMA5[i], cis_frame.Vol_SMA60[i])

\* C6: with the toggle on, reverse-buy and buy equal the toggle-off flags
\* AND (Vol_SMA5 > Vol_SMA60); sell is the same under both toggle values and
\* does not change when the volume columns do.
C6_VolumeToggle ==
    phase = "variants" =>
        \A i \in CisBars :
            /\ SignalsToggleOn.signal_reverse_buy[i]
                 = (SignalsToggleOff.signal_reverse_buy[i] /\ ClaimVolConfirm(i))
            /\ SignalsToggleOn.signal_buy[i]
                 = (SignalsToggleOff.signal_buy[i] /\ ClaimVolConfirm(i))
            /\ SignalsToggleOn.signal_sell[i] = SignalsToggleOff.signal_sell[i]
            /\ cis_swapped.signal_sell[i] = cis_signals.signal_sell[i]

\* a buy or reverse-buy the gate suppresses, one it lets through, and a sell
\* on a bar without volume confirmation
C6_Witness ==
    /\ phase = "variants"
    /\ \E i \in CisBars :
         /\ SignalsToggleOff.signal_buy[i] \/ SignalsToggleOff.signal_reverse_buy[i]
         /\ ~ClaimVolConfirm(i)
         /\ ~SignalsToggleOn.signal_buy[i]
         /\ ~SignalsToggleOn.signal_reverse_buy[i]
    /\ \E i \in CisBars :
         SignalsToggleOn.signal_buy[i] \/ SignalsToggleOn.signal_reverse_buy[i]
    /\ \E i \in CisBars :
         SignalsToggleOn.signal_sell[i] /\ ~ClaimVolConfirm(i)

CisRow(signals, i) ==
    [idx |-> i - 1,
     flags |-> {c \in {"signal_reverse_buy", "signal_buy", "signal_sell"} :
                    signals[c][i]}]

AtMostOneFlag(signals) ==
    \A i \in CisBars :
        /\ ~(signals.signal_buy[i] /\ signals.signal_reverse_buy[i])
        /\ ~(signals.signal_buy[i] /\ signals.signal_sell[i])
        /\ ~(signals.signal_reverse_buy[i] /\ signals.signal_sell[i])
        /\ Len(GetSignalType("CIS", CisRow(signals, i))) <= 1

ClaimChangeSmall(k) ==
    /\ k >= 2
    /\ ~IsNa(cis_frame.SMA25[k]) /\ ~IsNa(cis_frame.SMA25[k - 1])
    /\ Val(cis_frame.SMA25[k - 1])[1] # 0
    /\ LET cur == Val(cis_frame.SMA25[k])
           prev == Val(cis_frame.SMA25[k - 1])
       IN  1000 * Abs(cur[1] * prev[2] - prev[1] * cur[2])
              < 3 * Abs(prev[1] * cur[2])

ClaimFlat(i) == \A k \in (i - 2)..i : ClaimChangeSmall(k)

ClaimRising(col, i) ==
    i >= 2 /\ ~IsNa(col[i]) /\ ~IsNa(col[i - 1]) /\ FGt(col[i], col[i - 1])

ClaimFalling(col, i) ==
    i >= 2 /\ ~IsNa(col[i]) /\ ~IsNa(col[i - 1]) /\ FLt(col[i], col[i - 1])

ClaimReverseBuy(i) ==
    /\ FLt(Frac(cis_frame.close[i], 1), cis_frame.SMA25[i])
    /\ (ClaimFlat(i) \/ ClaimRising(cis_frame.SMA25, i))
    /\ ClaimRising(cis_frame.SMA5, i)
    /\ i >= 2
    /\ cis_frame.close[i] > cis_frame.open[i]
    /\ cis_frame.close[i - 1] > cis_frame.open[i - 1]

ClaimBuy(i) ==
    /\ (ClaimFlat(i) \/ ClaimRising(cis_frame.SMA25, i))
    /\ FGt(cis_frame.SMA5[i], cis_frame.SMA25[i])
    /\ FGt(Frac(cis_frame.close[i], 1), cis_frame.SMA5[i])

ClaimSell(i) ==
    /\ ClaimFalling(cis_frame.SMA5, i)
    /\ FLt(Frac(cis_frame.close[i], 1), cis_frame.SMA5[i])

\* 30 bars of close=100, open=99, volume=1000
FlatScenario == cis_bars = PriceFrame(Repeat(FlatBar, 30))

\* bars 0-24 carry no SMA25-dependent signal; is_ma_flat(SMA25) is true
\* exactly from bar 27 (position 28) on
FlatScenarioHolds ==
    FlatScenario =>
        /\ \A i \in 1..25 :
             ~cis_signals.signal_reverse_buy[i] /\ ~cis_signals.signal_buy[i]
        /\ \A i \in CisBars : IsMaFlat(cis_frame.SMA25, i) <=> i >= 28

\* C8 as stated: the three flags equal the ungated rules on every bar,
\* whatever the toggle, and the flat 30-bar scenario holds.
C8_AsStated ==
    CisSignalsDone =>
        /\ \A i \in CisBars :
             /\ cis_signals.signal_reverse_buy[i] = ClaimReverseBuy(i)
             /\ cis_signals.signal_buy[i] = ClaimBuy(i)
             /\ cis_signals.signal_sell[i] = ClaimSell(i)
        /\ FlatScenarioHolds

\* C8 amended: the flags equal the stated rules when volume confirmation is
\* off; when it is on (the default) reverse-buy and buy are the stated rules
\* AND Vol_SMA5 > Vol_SMA60; sell is the stated rule either way; the flat
\* 30-bar scenario holds.
C8_SignalRules ==
    CisSignalsDone =>
        /\ \A i \in CisBars :
             /\ cis_signals.signal_reverse_buy[i]
                  = (ClaimReverseBuy(i) /\ (cis_enable => ClaimVolConfirm(i)))
             /\ cis_signals.signal_buy[i]
                  = (ClaimBuy(i) /\ (cis_enable => ClaimVolConfirm(i)))
             /\ cis_signals.signal_sell[i] = ClaimSell(i)
        /\ FlatScenarioHolds

C8_Witness == CisSignalsDone /\ FlatScenario

\* cases of C8 the frames reach: a buy and a reverse-buy that rest on the
\* flat test alone (SMA25 not rising)
C8_FlatOnlyBuy ==
    /\ CisSignalsDone
    /\ \E i \in CisBars :
         cis_signals.signal_buy[i] /\ ~ClaimRising(cis_frame.SMA25, i)

C8_FlatOnlyReverseBuy ==
    /\ CisSignalsDone
    /\ \E i \in CisBars :
         cis_signals.signal_reverse_buy[i] /\ ~ClaimRising(cis_frame.SMA25, i)

\* ------------------------------------------------------------ C9, C10
RsComputed == phase \in {"indicators", "signals"}

RsRows == 1..Len(rs_macd_line)

\* index i (0-based) is valid when i >= rsi_period: position i + 1
ValidRow(p) == p \in RsRows /\ p > rs_period

\* the MACD change observed at position p >= 2
MacdChange(p) == rs_macd_line[p] - rs_macd_line[p - 1]

Is100(c) == ~IsNa(c) /\ Val(c)[2] > 0 /\ Val(c)[1] = 100 * Val(c)[2]

Is0(c) == ~IsNa(c) /\ Val(c)[2] > 0 /\ Val(c)[1] = 0

\* C9: at every valid index rsmacd is a defined finite value, 100 when the
\* smoothed loss is 0 and the smoothed gain is not, 0 when the smoothed gain
\* is 0; a warm-up with no loss and some gain gives 100 at the first valid
\* index, a warm-up with no gain gives 0.
C9_BoundaryRule ==
    RsComputed =>
        /\ \A p \in RsRows : ValidRow(p) =>
             /\ ~IsNa(rs_frame.avg_gain[p]) /\ ~IsNa(rs_frame.avg_loss[p])
             /\ ~IsNa(rs_frame.rsmacd[p]) /\ Val(rs_frame.rsmacd[p])[2] > 0
             /\ (IsZero(rs_frame.avg_loss[p]) /\ ~IsZero(rs_frame.avg_gain[p]))
                    => Is100(rs_frame.rsmacd[p])
             /\ IsZero(rs_frame.avg_gain[p]) => Is0(rs_frame.rsmacd[p])
        /\ ValidRow(rs_period + 1) =>
             /\ ((\A p \in 2..(rs_period + 1) : MacdChange(p) >= 0)
                    /\ (\E p \in 2..(rs_period + 1) : MacdChange(p) > 0))
                  => Is100(rs_frame.rsmacd[rs_period + 1])
             /\ (\A p \in 2..(rs_period + 1) : MacdChange(p) <= 0)
                  => Is0(rs_frame.rsmacd[rs_period + 1])

\* a constant MACD line: both averages are 0 at a valid index
C9_Witness ==
    /\ RsComputed
    /\ \E p \in RsRows :
         /\ ValidRow(p)
         /\ IsZero(rs_frame.avg_gain[p]) /\ IsZero(rs_frame.avg_loss[p])

StrictlyIncreasingMacd ==
    \A p \in RsRows : p >= 2 => MacdChange(p) > 0

NoRedSignal ==
    \A p \in RsRows :
        /\ ~rs_signals.signal_red_arrow[p]
        /\ ~rs_signals.signal_red_triangle[p]
        /\ ~rs_signals.signal_red_ball[p]

\* C10 as stated: on a strictly increasing MACD line (long enough to have a
\* valid index) the smoothed average loss is 0 at every index, rsmacd is 100
\* at every valid index and no red-family flag is true.
C10_AsStated ==
    (phase = "signals" /\ StrictlyIncreasingMacd
        /\ Len(rs_macd_line) > rs_period) =>
        /\ \A p \in RsRows : IsZero(rs_frame.avg_loss[p])
        /\ \A p \in RsRows : ValidRow(p) => Is100(rs_frame.rsmacd[p])
        /\ NoRedSignal

\* C10 amended: the smoothed average loss is 0 at every valid index and
\* undefined on the warm-up rows before it; rsmacd is 100 at every valid
\* index; no red-family flag is true.
C10_IncreasingMacd ==
    (phase = "signals" /\ StrictlyIncreasingMacd) =>
        /\ \A p \in RsRows :
             IF ValidRow(p) THEN IsZero(rs_frame.avg_loss[p])
             ELSE IsNa(rs_frame.avg_loss[p])
        /\ \A p \in RsRows : ValidRow(p) => Is100(rs_frame.rsmacd[p])
        /\ NoRedSignal

\* a strictly increasing line with at least three valid rows
C10_Witness ==
    /\ phase = "signals"
    /\ StrictlyIncreasingMacd
    /\ Len(rs_macd_line) >= rs_period + 3

\* ------------------------------------------------------------ C11
RsSignalsDone == phase = "signals"

\* rsmacd is defined at position p (a row of the frame)
RsDefined(p) == p \in RsRows /\ ~IsNa(rs_frame.rsmacd[p])

\* rsmacd[p] < rsmacd[q], both defined
RsBelowRow(p, q) ==
    /\ RsDefined(p) /\ RsDefined(q)
    /\ Val(rs_frame.rsmacd[p])[1] * Val(rs_frame.rsmacd[q])[2]
         < Val(rs_frame.rsmacd[q])[1] * Val(rs_frame.rsmacd[p])[2]

RsEqualRow(p, q) ==
    /\ RsDefined(p) /\ RsDefined(q)
    /\ Val(rs_frame.rsmacd[p])[1] * Val(rs_frame.rsmacd[q])[2]
         = Val(rs_frame.rsmacd[q])[1] * Val(rs_frame.rsmacd[p])[2]

\* rsmacd[p] against a level, p defined
RsBelowLevel(p, level) ==
    /\ RsDefined(p)
    /\ Val(rs_frame.rsmacd[p])[1] < level * Val(rs_frame.rsmacd[p])[2]

RsAboveLevel(p, level) ==
    /\ RsDefined(p)
    /\ Val(rs_frame.rsmacd[p])[1] > level * Val(rs_frame.rsmacd[p])[2]

RsAtLevel(p, level) ==
    /\ RsDefined(p)
    /\ Val(rs_frame.rsmacd[p])[1] = level * Val(rs_frame.rsmacd[p])[2]

ClaimTurningUp(p) ==
    /\ RsBelowRow(p - 1, p)
    /\ RsBelowRow(p - 1, p - 2) \/ RsEqualRow(p - 1, p - 2)

ClaimTurningDown(p) ==
    /\ RsBelowRow(p, p - 1)
    /\ RsBelowRow(p - 2, p - 1) \/ RsEqualRow(p - 1, p - 2)

\* C11: the six Strategy B flags are the stated comparisons of rsmacd at
\* i, i-1 and i-2 (turning-up, crossing above 30, crossing above 50 while
\* turning up, and their mirrors at 70 and 50), so a green ball is a green
\* arrow and a red ball is a red arrow.
C11_SignalRules ==
    RsSignalsDone =>
        \A p \in RsRows :
            /\ rs_signals.signal_green_arrow[p] = ClaimTurningUp(p)
            /\ rs_signals.signal_green_triangle[p]
                 = /\ RsBelowLevel(p - 1, 30) \/ RsAtLevel(p - 1, 30)
                   /\ RsAboveLevel(p, 30)
            /\ rs_signals.signal_green_ball[p]
                 = /\ RsBelowLevel(p - 1, 50) \/ RsAtLevel(p - 1, 50)
                   /\ RsAboveLevel(p, 50)
                   /\ ClaimTurningUp(p)
            /\ rs_signals.signal_red_arrow[p] = ClaimTurningDown(p)
            /\ rs_signals.signal_red_triangle[p]
                 = /\ RsAboveLevel(p - 1, 70) \/ RsAtLevel(p - 1, 70)
                   /\ RsBelowLevel(p, 70)
            /\ rs_signals.signal_red_ball[p]
                 = /\ RsAboveLevel(p - 1, 50) \/ RsAtLevel(p - 1, 50)
                   /\ RsBelowLevel(p, 50)
                   /\ ClaimTurningDown(p)
            /\ rs_signals.signal_green_ball[p]
                 => rs_signals.signal_green_arrow[p]
            /\ rs_signals.signal_red_ball[p]
                 => rs_signals.signal_red_arrow[p]

\* a turn up out of a level stretch that crosses 30 and 50 at once, and a
\* turn down on a later bar of the same line
C11_Witness ==
    /\ RsSignalsDone
    /\ \E p \in RsRows :
         /\ RsEqualRow(p - 1, p - 2)
         /\ rs_signals.signal_green_arrow[p]
         /\ rs_signals.signal_green_triangle[p]
         /\ rs_signals.signal_green_ball[p]
    /\ \E p \in RsRows : rs_signals.signal_red_arrow[p]

\* cases of C11 the lines reach: a red ball, a red triangle, a green arrow
\* that is no green ball, a green triangle that is no green arrow
C11_RedBallReached ==
    /\ RsSignalsDone
    /\ \E p \in RsRows :
         rs_signals.signal_red_ball[p] /\ rs_signals.signal_red_triangle[p]

C11_ArrowOnlyReached ==
    /\ RsSignalsDone
    /\ \E p \in RsRows :
         /\ rs_signals.signal_green_arrow[p]
         /\ ~rs_signals.signal_green_ball[p]
    /\ \E p \in RsRows :
         /\ rs_signals.signal_green_triangle[p]
         /\ ~rs_signals.signal_green_arrow[p]

\* ------------------------------------------------------------ C12
\* each page runs the pipeline of its own strategy: compute_indicators,
\* generate_signals, deduplicate_signals
NextPages ==
    \/ rs_period = 0 /\ NextCis
    \/ rs_period # 0 /\ NextRs

SpecPages == (InitCis \/ InitRs) /\ [][NextPages]_vars

CisRan == rs_period = 0 /\ phase \in {"signals", "variants", "events"}

RsRan == rs_period # 0 /\ phase \in {"signals", "events"}

\* the cell of a column at position i is undefined: NaN, or before the frame
Undef(col, i) == i < 1 \/ IsNa(col[i])

\* the returned columns are whole: one cell per bar, every flag a boolean
CisFrameWhole ==
    /\ \A c \in {"SMA5", "SMA25", "Vol_SMA5", "Vol_SMA60"} :
         Len(cis_frame[c]) = Len(cis_bars.close)
    /\ \A c \in {"signal_reverse_buy", "signal_buy", "signal_sell"} :
         /\ Len(cis_signals[c]) = Len(cis_bars.close)
         /\ \A i \in CisBars : cis_signals[c][i] \in BOOLEAN
    /\ phase = "events" => Len(cis_events) <= Len(cis_bars.close)

RsFrameWhole ==
    /\ Len(rs_frame.rsmacd) = Len(rs_macd_line)
    /\ \A k \in 1..Len(SignalMapping("RSMACD")) :
         LET c == SignalMapping("RSMACD")[k][1]
         IN  /\ Len(rs_signals[c]) = Len(rs_macd_line)
             /\ \A p \in RsRows : rs_signals[c][p] \in BOOLEAN
    /\ phase = "events" => Len(rs_events) <= Len(rs_macd_line)

C12_EmptyCisReached ==
    CisRan /\ phase = "events" /\ Len(cis_bars.close) = 0 /\ cis_events = <<>>

C12_EmptyRsReached ==
    RsRan /\ phase = "events" /\ rs_macd_line = <<>> /\ rs_events = <<>>

C12_VolumeUndefinedReached ==
    /\ CisRan /\ cis_enable
    /\ \E i \in CisBars :
         /\ BuyRule(cis_frame, i)
         /\ Undef(cis_frame.Vol_SMA60, i)
         /\ ~cis_signals.signal_buy[i]

C12_WarmUpEdgeReached ==
    /\ RsRan
    /\ \E p \in RsRows :
         /\ RsDefined(p) /\ RsDefined(p - 1) /\ ~RsDefined(p - 2)
         /\ RsBelowRow(p - 1, p)
         /\ ~rs_signals.signal_green_arrow[p]
         /\ rs_signals.signal_green_triangle[p]

\* ------------------------------------------------------------ C13
\* the flag columns and their display names in the fixed strategy order
ClaimOrder(strategy) ==
    IF strategy = "CIS"
    THEN << <<"signal_reverse_buy", "CIS_reverse_buy">>,
            <<"signal_buy", "CIS_buy">>, <<"signal_sell", "CIS_sell">> >>
    ELSE << <<"signal_green_arrow", "green_arrow">>,
            <<"signal_green_triangle", "green_triangle">>,
            <<"signal_green_ball", "green_ball">>,
            <<"signal_red_arrow", "red_arrow">>,
            <<"signal_red_triangle", "red_triangle">>,
            <<"signal_red_ball", "red_ball">> >>

\* label names every true flag of the row, once each, in the fixed order
NamesAllFlagsInOrder(strategy, flags, label) ==
    LET order == ClaimOrder(strategy)
        hit == {j \in 1..Len(order) : order[j][1] \in flags}
    IN  /\ Len(label) = Cardinality(hit)
        /\ \A j \in hit :
             label[Cardinality({h \in hit : h <= j})] = order[j][2]

\* C13: the signal events (the labelled rows, before the run walk) are
\* exactly the bars with at least one true flag, in bar order; each label
\* names all true flags of its bar in the fixed strategy order; a bar with
\* no true flag is in neither the events nor the output; a frame with no
\* flagged bar gives an empty output.
C13_EventsAreFlaggedBars ==
    DedupDone =>
        /\ Len(dd_signal_df) = Cardinality(FlaggedRows)
        /\ \A p \in 1..Len(dd_frame) :
             LET at == {e \in 1..Len(dd_signal_df) :
                            dd_signal_df[e].idx = dd_frame[p].idx}
             IN  IF dd_frame[p].flags = {}
                 THEN /\ at = {}
                      /\ \A e \in 1..Len(dd_events) :
                           dd_events[e].idx # dd_frame[p].idx
                 ELSE /\ Cardinality(at) = 1
                      /\ \A e \in at :
                           /\ dd_signal_df[e].flags = dd_frame[p].flags
                           /\ NamesAllFlagsInOrder(dd_strategy,
                                  dd_frame[p].flags, dd_signal_df[e].signal_type)
        /\ \A e \in 1..Len(dd_signal_df) : \A f \in 1..Len(dd_signal_df) :
             e < f => dd_signal_df[e].idx < dd_signal_df[f].idx
        /\ \A e \in 1..Len(dd_events) :
             NamesAllFlagsInOrder(dd_strategy, dd_events[e].flags,
                                  dd_events[e].signal_type)
        /\ (\A p \in 1..Len(dd_frame) : dd_frame[p].flags = {})
             => dd_signal_df = <<>> /\ dd_events = <<>>

\* a frame with a label-free bar and a bar carrying three flags
C13_Witness ==
    /\ DedupDone
    /\ \E p \in 1..Len(dd_frame) : dd_frame[p].flags = {}
    /\ \E e \in 1..Len(dd_events) : Len(dd_events[e].signal_type) = 3
    /\ Len(dd_events) < Len(dd_signal_df)

\* a case of C13 the frames reach: bars, none of them flagged
C13_NoFlaggedBarReached ==
    /\ DedupDone
    /\ Len(dd_frame) >= 2
    /\ dd_signal_df = <<>> /\ dd_events = <<>>

\* ------------------------------------------------------------ C14
TechReturned(fn) == phase = "returned" /\ tech_fn = fn

\* the sum of the integer cells a..b of a series, all of them defined
RECURSIVE CellSum(_, _, _)
CellSum(data, a, b) ==
    IF a > b THEN 0 ELSE Val(data[a]) + CellSum(data, a + 1, b)

\* the output cell is the exact ratio total / count
IsRatio(cell, total, count) ==
    /\ ~IsNa(cell) /\ Val(cell)[2] > 0
    /\ Val(cell)[1] * count = total * Val(cell)[2]

\* C14: moving_average(series, window), window >= 1: positions 0..window-2
\* are undefined; every later position is the arithmetic mean of the inputs
\* i-window+1..i, which is undefined again when one of them is missing.
C14_MovingAverage ==
    (TechReturned("moving_average") /\ tech_args.window >= 1) =>
        /\ ~tech_out.raised
        /\ Len(tech_out.value) = Len(tech_args.data)
        /\ \A p \in 1..Len(tech_args.data) :
             LET first == p - tech_args.window + 1
             IN  IF first < 1 THEN IsNa(tech_out.value[p])
                 ELSE IF \E k \in first..p : IsNa(tech_args.data[k])
                      THEN IsNa(tech_out.value[p])
                 ELSE IsRatio(tech_out.value[p],
                              CellSum(tech_args.data, first, p),
                              tech_args.window)

\* a window of 3 over 4 defined inputs whose two means differ
C14_Witness ==
    /\ TechReturned("moving_average")
    /\ tech_args.window = 3
    /\ Len(tech_args.data) = 4
    /\ \A k \in 1..4 : ~IsNa(tech_args.data[k])
    /\ tech_out.value[3] # tech_out.value[4]

\* a case of C14 the calls reach: a missing input inside a full window
C14_MissingInputReached ==
    /\ TechReturned("moving_average")
    /\ tech_args.window = 2
    /\ \E p \in 3..Len(tech_args.data) :
         /\ IsNa(tech_args.data[p - 1])
         /\ ~IsNa(tech_args.data[p]) /\ ~IsNa(tech_args.data[p - 2])
         /\ IsNa(tech_out.value[p])

\* ------------------------------------------------------------ C15, C16
AtrReturned == TechReturned("atr") /\ tech_args.period >= 1

AtrBars == 1..Len(tech_args.close)

\* C15 as stated: atr at index 0 equals high[0] - low[0] for every period.
C15_AsStated ==
    (AtrReturned /\ Len(tech_args.close) >= 1) =>
        /\ ~tech_out.raised
        /\ IsRatio(tech_out.value[1], tech_args.high[1] - tech_args.low[1], 1)

\* C15 amended: atr at index 0 equals high[0] - low[0] (the true range of
\* the first bar) when period is 1, and is undefined for every period >= 2.
C15_AtrFirstBar ==
    (AtrReturned /\ Len(tech_args.close) >= 1) =>
        /\ ~tech_out.raised
        /\ IF tech_args.period = 1
           THEN IsRatio(tech_out.value[1],
                        tech_args.high[1] - tech_args.low[1], 1)
           ELSE IsNa(tech_out.value[1])

\* period 1 on a first bar with a range
C15_Witness ==
    /\ AtrReturned
    /\ tech_args.period = 1
    /\ Len(tech_args.close) >= 2
    /\ tech_args.high[1] > tech_args.low[1]

\* the true range as C16 states it
ClaimTR(p) ==
    IF p = 1 THEN tech_args.high[1] - tech_args.low[1]
    ELSE Max2(tech_args.high[p] - tech_args.low[p],
              Max2(Abs(tech_args.high[p] - tech_args.close[p - 1]),
                   Abs(tech_args.low[p] - tech_args.close[p - 1])))

RECURSIVE ClaimTRSum(_, _)
ClaimTRSum(a, b) == IF a > b THEN 0 ELSE ClaimTR(a) + ClaimTRSum(a + 1, b)

\* C16: TR[0] = high[0] - low[0]; for i > 0 TR[i] is the largest of
\* high[i] - low[i], |high[i] - close[i-1]| and |low[i] - close[i-1]|; ATR[i]
\* is the mean of TR over the period bars ending at i, undefined for
\* i < period - 1.
C16_TrueRangeMean ==
    AtrReturned =>
        /\ ~tech_out.raised
        /\ Len(tech_out.value) = Len(tech_args.close)
        /\ \A p \in AtrBars :
             IF p < tech_args.period THEN IsNa(tech_out.value[p])
             ELSE IsRatio(tech_out.value[p],
                          ClaimTRSum(p - tech_args.period + 1, p),
                          tech_args.period)

\* a bar whose gap against the previous close exceeds its own range, inside
\* a full window of 2 that is not the first one
C16_Witness ==
    /\ AtrReturned
    /\ tech_args.period = 2
    /\ \E p \in AtrBars :
         /\ p >= 3
         /\ Abs(tech_args.low[p] - tech_args.close[p - 1])
               > tech_args.high[p] - tech_args.low[p]
         /\ ~IsNa(tech_out.value[p])

\* ------------------------------------------------------------ C17, C18
RsiReturned == TechReturned("rsi") /\ tech_args.period >= 1

RsiBars == 1..Len(tech_args.close)

\* the rolling gain and loss of the call
RsiGain == RsiColumns(tech_args.close, tech_args.period).gain

RsiLoss == RsiColumns(tech_args.close, tech_args.period).loss

\* a float cell holding a finite number
IsFinite(cell) == ~IsNa(cell) /\ Val(cell)[2] > 0

\* C17: at every position whose window holds period real deltas and whose
\* rolling loss is exactly 0, rsi is a defined finite value, whether the
\* rolling gain is positive or 0 as well.
C17_AsStated ==
    RsiReturned =>
        /\ ~tech_out.raised
        /\ \A p \in RsiBars :
             (p > tech_args.period /\ IsZero(RsiLoss[p]))
                => IsFinite(tech_out.value[p])

\* what the code returns there: 100 through the infinite ratio when the
\* rolling gain is positive, NaN when the rolling gain is 0 too
C17_ZeroLossOutcome ==
    RsiReturned =>
        \A p \in RsiBars :
            (p > tech_args.period /\ IsZero(RsiLoss[p])) =>
                IF IsZero(RsiGain[p]) THEN IsNa(tech_out.value[p])
                ELSE IsRatio(tech_out.value[p], 100, 1)

\* both outcomes in one call: a rise, then a level stretch as long as the
\* window
C17_BothOutcomesReached ==
    /\ RsiReturned
    /\ \E p \in RsiBars : \E q \in RsiBars :
         /\ p > tech_args.period /\ q > tech_args.period
         /\ IsZero(RsiLoss[p]) /\ IsZero(RsiLoss[q])
         /\ IsRatio(tech_out.value[p], 100, 1)
         /\ IsNa(tech_out.value[q])

\* C18: rsi is undefined at every index 0..period-1, where fewer than
\* period real day-over-day deltas exist.
C18_AsStated ==
    RsiReturned =>
        /\ ~tech_out.raised
        /\ \A p \in RsiBars : p <= tech_args.period => IsNa(tech_out.value[p])

\* what the code returns: the first delta enters both windows as 0, so the
\* rolling gain and loss are defined from index period-1 on
C18_FirstDeltaAveraged ==
    RsiReturned =>
        \A p \in RsiBars :
            /\ IsNa(RsiGain[p]) <=> p < tech_args.period
            /\ IsNa(RsiLoss[p]) <=> p < tech_args.period
            /\ p = tech_args.period =>
                 IsRatio(RsiGain[p],
                         CellSum(GainRaw(Diff(tech_args.close)), 2, p),
                         tech_args.period)

\* ------------------------------------------------------------ C19
\* C19: rsmacd is undefined at indices 0..rsi_period-1 and a defined finite
\* value at every index >= rsi_period; the 100 / 0 substitution leaves the
\* warm-up positions undefined.
C19_WarmUp ==
    RsComputed =>
        \A p \in RsRows :
            IF p <= rs_period THEN IsNa(rs_frame.rsmacd[p])
            ELSE IsFinite(rs_frame.rsmacd[p])

\* a line that does not rise during the warm-up (no gain, where the
\* substitution would give 0) and is long enough for two valid rows
C19_Witness ==
    /\ RsComputed
    /\ Len(rs_macd_line) >= rs_period + 2
    /\ \A p \in 2..rs_period : MacdChange(p) <= 0
    /\ Is0(rs_frame.rsmacd[rs_period + 1])

\* ------------------------------------------------------------ C20
\* the call was made with a non-positive window, period or multiplier
Misconfigured ==
    \/ tech_fn = "moving_average" /\ tech_args.window <= 0
    \/ tech_fn \in {"atr", "rsi"} /\ tech_args.period <= 0
    \/ tech_fn = "atr_trailing_stop" /\ tech_args.multiplier <= 0

\* the call was given at least two bars, none with a missing cell
PlainSeries ==
    /\ tech_fn = "moving_average" =>
         /\ Len(tech_args.data) >= 2
         /\ \A k \in 1..Len(tech_args.data) : ~IsNa(tech_args.data[k])
    /\ tech_fn \in {"atr", "rsi"} => Len(tech_args.close) >= 2
    /\ tech_fn = "atr_trailing_stop" =>
         /\ Len(tech_args.close) >= 2
         /\ \A k \in 1..Len(tech_args.close) : ~IsNa(tech_args.atr[k])

\* C20: a call (here on a series of defined bars) with a non-positive
\* window, period or ATR multiplier raises to the caller and returns no
\* indicator output.
C20_AsStated ==
    (phase = "returned" /\ Misconfigured /\ PlainSeries) => tech_out.raised

\* what the code does: only a negative window or period raises (inside
\* Series.rolling), and idxmin() of an empty drawdown series; a window or
\* period of 0 returns an all-missing Series and a non-positive multiplier
\* returns stops at or above the anchor
C20_OnlyNegativeWindowRaises ==
    phase = "returned" =>
        /\ tech_out.raised <=>
             \/ tech_fn = "moving_average" /\ tech_args.window < 0
             \/ tech_fn \in {"atr", "rsi"} /\ tech_args.period < 0
             \/ tech_fn = "max_drawdown" /\ tech_args.data = <<>>
        /\ (tech_fn = "atr_trailing_stop" /\ tech_args.multiplier <= 0) =>
             \A p \in 1..Len(tech_args.close) :
                ~IsNa(tech_out.value[p]) =>
                    Val(tech_out.value[p]) >= Val(tech_args.close[p])

\* a non-positive multiplier that returned a stop above its anchor
C20_StopAboveAnchorReached ==
    /\ TechReturned("atr_trailing_stop")
    /\ tech_args.multiplier < 0
    /\ \E p \in 1..Len(tech_args.close) :
         /\ ~IsNa(tech_out.value[p])
         /\ Val(tech_out.value[p]) > Val(tech_args.close[p])

\* ------------------------------------------------------------------ C21
SharpeReturned == TechReturned("sharpe_ratio")

\* the excess returns are at least two equal values: their standard
\* deviation is 0
ZeroVariance ==
    /\ Len(tech_args.returns) >= 2
    /\ \A i, j \in 1..Len(tech_args.returns) :
         tech_args.returns[i] = tech_args.returns[j]

\* C21, as stated: when the standard deviation of the excess returns is 0,
\* sharpe_ratio ends in an explicitly defined outcome (an error or a guarded
\* finite value), never in the infinity or NaN of the division.
C21_AsStated ==
    (SharpeReturned /\ ZeroVariance)
        => \/ tech_out.raised
           \/ tech_out.value.kind = "finite"

\* both unguarded outcomes occur: mean / 0 and 0 / 0
C21_InfinityReached ==
    /\ SharpeReturned /\ ZeroVariance
    /\ ~tech_out.raised /\ tech_out.value.kind = "inf"

C21_NaNReached ==
    /\ SharpeReturned /\ ZeroVariance
    /\ ~tech_out.raised /\ tech_out.value.kind = "nan"

\* ------------------------------------------------------------------ C25
DrawdownReturned == TechReturned("max_drawdown")

DdData == tech_args.data

\* max(series[0..i]), from the claim
ClaimRunningMax(i) ==
    CHOOSE m \in {DdData[k] : k \in 1..i} :
        \A k \in 1..i : DdData[k] <= m

ClaimDrawdown(i) ==
    Frac(DdData[i] - ClaimRunningMax(i), ClaimRunningMax(i))

SameValue(a, b) == FLe(a, b) /\ FLe(b, a)

NonDecreasing(s) == \A i \in 1..(Len(s) - 1) : s[i] <= s[i + 1]

\* C25: on a non-empty positive series max_drawdown returns the whole
\* drawdown series, drawdown[i] = (series[i] - max(series[0..i])) /
\* max(series[0..i]) <= 0 at every position; max_drawdown is its minimum,
\* max_drawdown_date the first position attaining it, and a non-decreasing
\* series yields max_drawdown = 0.
C25_MaxDrawdown ==
    (DrawdownReturned /\ DdData # <<>>) =>
        /\ ~tech_out.raised
        /\ LET out == tech_out.value
               dd == out.drawdown_series
               at == out.max_drawdown_date + 1
           IN  /\ Len(dd) = Len(DdData)
               /\ \A i \in 1..Len(dd) :
                    /\ SameValue(dd[i], ClaimDrawdown(i))
                    /\ FLe(dd[i], Frac(0, 1))
                    /\ FLe(out.max_drawdown, dd[i])
               /\ at \in 1..Len(dd)
               /\ SameValue(out.max_drawdown, dd[at])
               /\ \A i \in 1..(at - 1) : FLt(out.max_drawdown, dd[i])
               /\ NonDecreasing(DdData) =>
                    SameValue(out.max_drawdown, Frac(0, 1))

\* a series whose deepest drawdown is attained twice, after a new high
C25_Witness ==
    /\ DrawdownReturned /\ ~tech_out.raised
    /\ Len(DdData) = 4
    /\ DdData[2] > DdData[1] /\ DdData[3] < DdData[1]
    /\ DdData[4] = DdData[3]
    /\ tech_out.value.max_drawdown_date = 2

C25_NonDecreasingReached ==
    /\ DrawdownReturned /\ ~tech_out.raised
    /\ Len(DdData) >= 3 /\ NonDecreasing(DdData) /\ DdData[1] < DdData[3]
    /\ SameValue(tech_out.value.max_drawdown, Frac(0, 1))

\* ------------------------------------------------------------------ C22
InputUndefinedAt(i) == IsNa(ts_close[i]) \/ IsNa(ts_atr[i])

TechStopReturned == TechReturned("atr_trailing_stop")

TechStop == tech_out.value

\* candidate[i] = anchor[i] - ATR[i] * multiplier, from the claim
TechClaimCandidate(i) ==
    Val(tech_args.close[i]) - Val(tech_args.atr[i]) * tech_args.multiplier

NonNegativeOffset(i) == Val(tech_args.atr[i]) * tech_args.multiplier >= 0

TechStopOutAt(i) ==
    /\ i > 1
    /\ ~IsNa(TechStop[i - 1]) /\ ~IsNa(TechStop[i])
    /\ Val(tech_args.close[i]) < Val(TechStop[i - 1])

C28_NegativeOffsetReached ==
    /\ TechStopReturned
    /\ \E i \in 2..Len(tech_args.close) :
         /\ TechStopOutAt(i)
         /\ ~NonNegativeOffset(i)
         /\ Val(TechStop[i]) > Val(tech_args.close[i])
         /\ Val(TechStop[i]) >= Val(TechStop[i - 1])

\* ------------------------------------------------------------------ C23
InRange0To100(c) ==
    /\ ~IsNa(c) /\ Val(c)[2] > 0
    /\ 0 <= Val(c)[1] /\ Val(c)[1] <= 100 * Val(c)[2]

StrictlyInside(c) ==
    /\ ~IsNa(c) /\ Val(c)[2] > 0
    /\ 0 < Val(c)[1] /\ Val(c)[1] < 100 * Val(c)[2]

\* C23: at every valid index rsmacd lies in [0, 100], for every MACD line
\* and every rsi_period.
C23_Oscillator ==
    RsComputed =>
        \A p \in RsRows : ValidRow(p) => InRange0To100(rs_frame.rsmacd[p])

\* one line that visits 100, the inside of the range above 50 and below 50
C23_Witness ==
    /\ RsComputed
    /\ \E p, q, r \in RsRows :
         /\ ValidRow(p) /\ ValidRow(q) /\ ValidRow(r)
         /\ Is100(rs_frame.rsmacd[p])
         /\ StrictlyInside(rs_frame.rsmacd[q])
         /\ FGt(rs_frame.rsmacd[q], Frac(50, 1))
         /\ StrictlyInside(rs_frame.rsmacd[r])
         /\ FLt(rs_frame.rsmacd[r], Frac(50, 1))

\* ------------------------------------------------------------------ C30
\* a MACD decline / rise was observed at some index <= the one of position p
DeclinedBy(p) == \E k \in 2..p : MacdChange(k) < 0

RisenBy(p) == \E k \in 2..p : MacdChange(k) > 0

\* the claim's sentences at position p
WholeHistoryAt(p) ==
    /\ IsZero(rs_frame.avg_loss[p]) <=> ~DeclinedBy(p)
    /\ IsZero(rs_frame.avg_gain[p]) <=> ~RisenBy(p)
    /\ Is100(rs_frame.rsmacd[p]) => ~DeclinedBy(p)
    /\ Is0(rs_frame.rsmacd[p]) => ~RisenBy(p)
    /\ (DeclinedBy(p) /\ RisenBy(p)) => StrictlyInside(rs_frame.rsmacd[p])

CurrentBarAt(p) ==
    /\ IsZero(rs_frame.avg_loss[p]) <=> MacdChange(p) >= 0
    /\ IsZero(rs_frame.avg_gain[p]) <=> MacdChange(p) <= 0
    /\ Is100(rs_frame.rsmacd[p]) <=> MacdChange(p) > 0
    /\ Is0(rs_frame.rsmacd[p]) <=> MacdChange(p) <= 0

C30_ForgetfulReached ==
    /\ RsComputed
    /\ rs_period = 1
    /\ \E p \in RsRows :
         ValidRow(p) /\ DeclinedBy(p - 1) /\ Is100(rs_frame.rsmacd[p])

\* ------------------------------------------------------------------ C26
RsEventsDone == rs_period # 0 /\ phase = "events"

RsFlagColumns ==
    {"signal_green_arrow", "signal_green_triangle", "signal_green_ball",
     "signal_red_arrow", "signal_red_triangle", "signal_red_ball"}

RsFlagged(p) == \E f \in RsFlagColumns : rs_signals[f][p]

\* C26: on the frame generate_signals of Strategy B returned, none of the six
\* flags is true on two consecutive bars, and deduplicate_signals drops
\* nothing: the events are exactly the flagged bars, in order.
C26_NothingDropped ==
    RsEventsDone =>
        /\ \A f \in RsFlagColumns : \A p \in RsRows :
             (p > 1 /\ rs_signals[f][p]) => ~rs_signals[f][p - 1]
        /\ Len(rs_events) = Cardinality({p \in RsRows : RsFlagged(p)})
        /\ \A p \in RsRows :
             RsFlagged(p) =>
                \E k \in 1..Len(rs_events) : rs_events[k].idx = p - 1

\* flagged bars next to each other (with different labels), both events
C26_Witness ==
    /\ RsEventsDone
    /\ \E p \in RsRows :
         /\ p > 1 /\ RsFlagged(p - 1) /\ RsFlagged(p)
         /\ \E k \in 2..Len(rs_events) :
              rs_events[k - 1].idx = p - 2 /\ rs_events[k].idx = p - 1

\* ------------------------------------------------------------------ C27
RsGreenAt(p) ==
    \/ rs_signals.signal_green_arrow[p]
    \/ rs_signals.signal_green_triangle[p]
    \/ rs_signals.signal_green_ball[p]

RsRedAt(p) ==
    \/ rs_signals.signal_red_arrow[p]
    \/ rs_signals.signal_red_triangle[p]
    \/ rs_signals.signal_red_ball[p]

GreenLabels == {"green_arrow", "green_triangle", "green_ball"}

RedLabels == {"red_arrow", "red_triangle", "red_ball"}

LabelSet(label) == {label[k] : k \in 1..Len(label)}

\* C27: a green flag implies rsmacd[i] > rsmacd[i-1] and a red flag
\* rsmacd[i] < rsmacd[i-1], so no bar carries a green and a red flag and
\* every event label is all-green or all-red.
C27_OneColourPerBar ==
    RsRan =>
        /\ \A p \in RsRows :
             /\ RsGreenAt(p) => RsBelowRow(p - 1, p)
             /\ RsRedAt(p) => RsBelowRow(p, p - 1)
             /\ ~(RsGreenAt(p) /\ RsRedAt(p))
        /\ phase = "events" =>
             \A k \in 1..Len(rs_events) :
                \/ LabelSet(rs_events[k].signal_type) \subseteq GreenLabels
                \/ LabelSet(rs_events[k].signal_type) \subseteq RedLabels

\* events of both colours, one of them with more than one flag
C27_Witness ==
    /\ RsRan /\ phase = "events"
    /\ \E j, k \in 1..Len(rs_events) :
         /\ Len(rs_events[j].signal_type) >= 2
         /\ LabelSet(rs_events[j].signal_type) \subseteq GreenLabels
         /\ Len(rs_events[k].signal_type) >= 2
         /\ LabelSet(rs_events[k].signal_type) \subseteq RedLabels

\* ------------------------------------------------------------------ C29
\* the local rule: bar p is kept iff its label is non-empty and bar p - 1
\* does not exist, has an empty label or has a different label
LocallyKept(p) ==
    /\ BarLabel(p) # None
    /\ p = 1 \/ BarLabel(p - 1) = None \/ BarLabel(p - 1) # BarLabel(p)

\* the walk as the specification words it: the label compared against is the
\* one of the previous kept bar, the position the one of the previous
\* filtered bar; the index labels of the kept rows, from row k on
RECURSIVE KeptLabelWalk(_, _, _, _)
KeptLabelWalk(rows, k, kept_label, prev_idx) ==
    IF k > Len(rows) THEN {}
    ELSE LET adjacent == prev_idx # {} /\ rows[k].idx - Val(prev_idx) = 1
             keep == ~(adjacent /\ rows[k].signal_type = kept_label)
         IN  (IF keep THEN {rows[k].idx} ELSE {})
                \cup KeptLabelWalk(rows, k + 1,
                                   IF keep THEN rows[k].signal_type
                                   ELSE kept_label,
                                   {rows[k].idx})

EventIdx == {dd_events[e].idx : e \in 1..Len(dd_events)}

\* C29: on a frame indexed 0..n-1 the events are exactly the bars the local
\* rule keeps, in order, and the walk that compares against the previous
\* kept label keeps the same bars.
C29_LocalRule ==
    DedupDone =>
        /\ EventIdx = {p - 1 : p \in {q \in 1..Len(dd_frame) : LocallyKept(q)}}
        /\ Len(dd_events) = Cardinality(EventIdx)
        /\ \A e \in 1..(Len(dd_events) - 1) :
             dd_events[e].idx < dd_events[e + 1].idx
        /\ EventIdx = KeptLabelWalk(dd_signal_df, 1, None, {})

\* three adjacent bars of one label, then another label: at the third bar
\* the previous kept bar and the previous filtered bar are different bars
C29_Witness ==
    /\ DedupDone
    /\ Len(dd_frame) = 4
    /\ BarLabel(1) # None
    /\ BarLabel(2) = BarLabel(1)
    /\ BarLabel(3) = BarLabel(1)
    /\ BarLabel(4) # None /\ BarLabel(4) # BarLabel(1)
    /\ EventIdx = {0, 3}

\* a label-free bar breaks the run: the bar after it is kept again
C29_GapReached ==
    /\ DedupDone
    /\ Len(dd_frame) = 4
    /\ BarLabel(1) # None
    /\ BarLabel(2) = BarLabel(1)
    /\ BarLabel(3) = None
    /\ BarLabel(4) = BarLabel(1)
    /\ EventIdx = {0, 3}

\* ------------------------------------------------------------------ C24
\* every operation of the claim in one specification: both page pipelines,
\* deduplicate_signals on free flag frames, and the static-method calls
\* (atr_trailing_stop among them)
NextCalls ==
    \/ dd_strategy # "" /\ NextDedup
    \/ tech_fn # "" /\ NextTech
    \/ dd_strategy = "" /\ tech_fn = "" /\ NextPages

SpecCalls == (InitCis \/ InitRs \/ InitDedup \/ InitTech) /\ [][NextCalls]_vars

\* result has the rows of df in the same order: every column of df is in it
\* unchanged, every column has one cell per row, and columns were added
Extends(df, result) ==
    /\ DOMAIN df \subseteq DOMAIN result
    /\ DOMAIN result # DOMAIN df
    /\ \A c \in DOMAIN df : result[c] = df[c]
    /\ \A c \in DOMAIN result : \A d \in DOMAIN df :
         Len(result[c]) = Len(df[d])

\* one step of any call: what the caller passed is what the caller still has
InputsKept ==
    /\ cis_bars' = cis_bars
    /\ cis_frame # <<>> => cis_frame' = cis_frame
    /\ cis_signals # <<>> => cis_signals' = cis_signals
    /\ rs_macd_line' = rs_macd_line
    /\ rs_frame # <<>> => rs_frame' = rs_frame
    /\ rs_signals # <<>> => rs_signals' = rs_signals
    /\ dd_frame' = dd_frame
    /\ tech_args' = tech_args

\* one step of compute_indicators or generate_signals: the returned frame
OutputsAligned ==
    /\ (cis_frame = <<>> /\ cis_frame' # <<>>) => Extends(cis_bars, cis_frame')
    /\ (cis_signals = <<>> /\ cis_signals' # <<>>) =>
         Extends(cis_frame, cis_signals')
    /\ (rs_frame = <<>> /\ rs_frame' # <<>>) =>
         /\ rs_frame'.macd_line = rs_macd_line
         /\ \A c \in DOMAIN rs_frame' :
              Len(rs_frame'[c]) = Len(rs_macd_line)
    /\ (rs_signals = <<>> /\ rs_signals' # <<>>) =>
         Extends(rs_frame, rs_signals')

C24_RsCallsReached ==
    /\ rs_period # 0 /\ phase = "events"
    /\ rs_events # <<>>
    /\ Extends(rs_frame, rs_signals)
    /\ "signal_type" \notin DOMAIN rs_signals

\* deduplicate_signals returned events and its argument has no label column
C24_DedupCallReached ==
    /\ dd_strategy # "" /\ phase = "deduplicated"
    /\ dd_events # <<>>
    /\ \A p \in 1..Len(dd_frame) : DOMAIN dd_frame[p] = {"idx", "flags"}
    /\ \A e \in 1..Len(dd_events) : "signal_type" \in DOMAIN dd_events[e]

C24_StopCallReached ==
    /\ TechReturned("atr_trailing_stop")
    /\ \E i \in 1..Len(tech_args.close) :
         ~IsNa(tech_out.value[i]) /\ tech_out.value[i] # tech_args.close[i]

====
